---- MODULE Spec2Model ----
(***************************************************************************)
(* A model of the fetch-classify-acquire pipeline of the Reddit archiver:  *)
(*   - request_with_backoff of "DOWNLOADERS/Post Saver/script.py" and of   *)
(*     SCRIPTS/jsonDownloader.py (the latter on top of oauth_request),     *)
(*   - extract_comments and classify_media_kind of both files,             *)
(*   - pick_best_from_mpd, download_image, download_gallery and            *)
(*     download_video of script.py,                                        *)
(*   - fetch_post_and_comments, make_archive_object and archive_one of     *)
(*     script.py.                                                          *)
(* Every network request is one step: the step holds the request and all   *)
(* the local code that runs until the next request or the end of the call. *)
(* Durations are in tenths of a second.                                    *)
(***************************************************************************)
EXTENDS Integers, Sequences, FiniteSets, TLC

VARIABLES
    \* ---- one call of request_with_backoff ----
    impl,         \* "script" | "json": which file's functions run
    max_retries,  \* the max_retries argument
    attempt,      \* the local retry counter
    fpc,          \* "idle" | "request" | "token" | "token401" | "request401" | "returned" | "raised"
    requests,     \* SESSION.request calls made by this call so far
    status,       \* status code of the latest response (0: none, or the request raised)
    hdr,          \* Retry-After header of the latest response
    sleeps,       \* time.sleep calls made by this call so far
    lastSleep,    \* argument of the latest time.sleep
    err,          \* the exception that ended the call
    tokenOk,      \* oauth holds a token (oauth._token is set)
    all429,       \* every request of this call so far was answered with HTTP 429
    \* ---- one call of extract_comments ----
    listing,      \* the listing_node argument
    max_depth,    \* the max_depth argument
    max_count,    \* the max_count argument
    cpc,          \* "idle" | "ready" | "done"
    out,          \* what the call left: collected, remaining[0], the nodes converted
    \* ---- one call of download_video ----
    post,         \* the post argument
    dpc,          \* where the call running on the post is: "idle", "start", "fetch", ...
    fetchFor,     \* what the running request_with_backoff call fetches
    media,        \* the media dict being filled
    fs,           \* the files in base_dir
    ffmpeg,       \* the ffmpeg executable is on the search path
    pick,         \* (v_url, a_url) as pick_best_from_mpd returned them
    fallback,     \* the payload's fallback_url
    derr,         \* the exception that ended download_video
    media_kind,   \* what classify_media_kind returned
    calls,        \* the requests begun and the programs run, in order
    manifest,     \* the manifest pick_best_from_mpd was given
    \* ---- one call of archive_one ----
    download_media, \* the download_media argument
    archive,      \* the archive dict, once make_archive_object has built it
    body,         \* the body of the response to the post request, once it is there
    \* ---- one run of a batch driver ----
    batch         \* the loop over the links: its counters and what it did so far

fetchVars == <<impl, max_retries, attempt, fpc, requests, status, hdr, sleeps,
               lastSleep, err, tokenOk, all429>>

commentVars == <<listing, max_depth, max_count, cpc, out>>

videoVars == <<post, dpc, fetchFor, media, fs, ffmpeg, pick, fallback, derr, media_kind, calls,
               manifest>>

archiveVars == <<download_media, archive, body, batch>>

vars == <<fetchVars, commentVars, videoVars, archiveVars>>

----------------------------------------------------------------------------
(* Bounds of the model *)

MaxRetries == 2

\* The comment listings of the model hold at most this many nodes.
MaxNodes == 4

\* The galleries of the model hold at most this many items.
MaxItems == 3

\* The bandwidths the manifests of the model declare are 0..MaxBandwidth.
MaxBandwidth == 2

\* The batch drivers of the model are given at most this many links.
MaxLinks == 2

\* The longest retry budget a call of script.py's fetcher is given: enough
\* retries for the exponential delay to reach its cap twice.
LongBudget == 8

\* oauth_request's loop on 429 has no bound in the code: the model stops
\* counting the requests of a call here.
ReqCap == MaxRetries + 3

----------------------------------------------------------------------------
(* Values *)

None == "None"

Min(a, b) == IF a < b THEN a ELSE b
Max(a, b) == IF a > b THEN a ELSE b

\* Retry-After header values as sent: absent, seconds, an HTTP date.
RetryAfterValues == {None, "3", "120", "-1", "Wed, 21 Oct 2015 07:28:00 GMT"}

\* float(s) on a header value: the number in tenths of a second, or ValueError.
ParseFloat(s) ==
    CASE s = "3"   -> [ok |-> TRUE, val |-> 30]
      [] s = "120" -> [ok |-> TRUE, val |-> 1200]
      [] s = "-1"  -> [ok |-> TRUE, val |-> -10]
      [] OTHER     -> [ok |-> FALSE, val |-> 0]

\* random.uniform(0, 0.5), sampled.
JitterMax == 5
Jitter == {0, 3, JitterMax}

\* What one SESSION.request can do: raise a transport error, or answer.
Outcomes ==
    {[exc |-> TRUE, status |-> 0, hdr |-> None]} \cup
    {[exc |-> FALSE, status |-> s, hdr |-> None] : s \in {200, 401, 403, 429, 503}} \cup
    {[exc |-> FALSE, status |-> s, hdr |-> h] : s \in {429, 503}, h \in RetryAfterValues}

----------------------------------------------------------------------------
(* request_with_backoff: the pieces both files share *)

\* An exponential delay without the cap.
BackoffUncapped(a) == 10 * 2^a

\* min(60, 2 ** attempt)
Backoff(a) == Min(600, 10 * 2^a)

\* A fetcher that retries on every error status.
IsRetryableAnyError(s) == 400 <= s /\ s < 600

\* resp.status_code == 429 or 500 <= resp.status_code < 600
IsRetryable(s) == s = 429 \/ (500 <= s /\ s < 600)

\* 400 <= resp.status_code < 500
IsClientError(s) == 400 <= s /\ s < 500

\* resp.raise_for_status() raises
RaisesForStatus(s) == 400 <= s /\ s < 600

\* A budget test that is off by one.
BudgetExhaustedLate(a, m) == a > m

\* attempt >= max_retries
BudgetExhausted(a, m) == a >= m

\* A Retry-After delay capped like the exponential value.
RetryAfterDelayCapped(h) ==
    IF ParseFloat(h).ok THEN Min(600, ParseFloat(h).val) ELSE 100

\* The Retry-After delay of script.py: float(retry_after), 10.0 on ValueError.
RetryAfterDelay(h) == IF ParseFloat(h).ok THEN ParseFloat(h).val ELSE 100

\* The Retry-After delay of jsonDownloader.py before the jitter is added.
JsonRetryAfterDelay(h, a) ==
    IF h # None /\ ParseFloat(h).ok THEN ParseFloat(h).val ELSE Backoff(a)

\* oauth_request's delay on 429: max(2.0, float(retry-after)), 2.0 by default.
OAuthDelay(h) ==
    Max(20, IF h # None /\ ParseFloat(h).ok THEN ParseFloat(h).val ELSE 20)

Raise(e) ==
    /\ fpc' = "raised"
    /\ err' = e
    /\ UNCHANGED <<attempt, sleeps, lastSleep>>

\* time.sleep(d); attempt += 1; continue.  time.sleep raises ValueError on d < 0.
SleepThenRetry(d, nextpc) ==
    IF d < 0
    THEN Raise("ValueError")
    ELSE /\ sleeps' = sleeps + 1
         /\ lastSleep' = d
         /\ attempt' = attempt + 1
         /\ fpc' = nextpc
         /\ err' = err

\* The except branch: re-raise when the budget is spent, else back off.
OnRequestException(nextpcs) ==
    IF BudgetExhausted(attempt, max_retries)
    THEN Raise("RequestException")
    ELSE \E j \in Jitter, n \in nextpcs : SleepThenRetry(Backoff(attempt) + j, n)

----------------------------------------------------------------------------
(* request_with_backoff of script.py *)

\* SESSION.request raises requests.RequestException.
STransportError ==
    /\ impl = "script" /\ fpc = "request"
    /\ requests' = requests + 1
    /\ status' = 0 /\ hdr' = None /\ all429' = FALSE
    /\ OnRequestException({"request"})
    /\ UNCHANGED <<impl, max_retries, tokenOk>>
    /\ UNCHANGED <<commentVars, videoVars, archiveVars>>

\* The response is 429 or 5xx.
SRetryableStatus ==
    /\ impl = "script" /\ fpc = "request"
    /\ \E o \in Outcomes :
        /\ ~o.exc /\ IsRetryable(o.status)
        /\ requests' = requests + 1
        /\ status' = o.status /\ hdr' = o.hdr
        /\ all429' = (all429 /\ o.status = 429)
        /\ IF BudgetExhausted(attempt, max_retries)
           THEN Raise("HTTPError")
           ELSE IF o.hdr # None
                THEN SleepThenRetry(RetryAfterDelay(o.hdr), "request")
                ELSE \E j \in Jitter : SleepThenRetry(Backoff(attempt) + j, "request")
    /\ UNCHANGED <<impl, max_retries, tokenOk>>
    /\ UNCHANGED <<commentVars, videoVars, archiveVars>>

\* The response is another 4xx.
SClientError ==
    /\ impl = "script" /\ fpc = "request"
    /\ \E o \in Outcomes :
        /\ ~o.exc /\ ~IsRetryable(o.status) /\ IsClientError(o.status)
        /\ requests' = requests + 1
        /\ status' = o.status /\ hdr' = o.hdr
        /\ all429' = FALSE
        /\ IF RaisesForStatus(o.status)
           THEN Raise("HTTPError")
           ELSE /\ fpc' = "returned"
                /\ UNCHANGED <<attempt, sleeps, lastSleep, err>>
    /\ UNCHANGED <<impl, max_retries, tokenOk>>
    /\ UNCHANGED <<commentVars, videoVars, archiveVars>>

\* Any other response is returned.
SReturn ==
    /\ impl = "script" /\ fpc = "request"
    /\ \E o \in Outcomes :
        /\ ~o.exc /\ ~IsRetryable(o.status) /\ ~IsClientError(o.status)
        /\ requests' = requests + 1
        /\ status' = o.status /\ hdr' = o.hdr
        /\ all429' = FALSE
        /\ fpc' = "returned"
        /\ UNCHANGED <<attempt, sleeps, lastSleep, err>>
    /\ UNCHANGED <<impl, max_retries, tokenOk>>
    /\ UNCHANGED <<commentVars, videoVars, archiveVars>>

----------------------------------------------------------------------------
(* request_with_backoff of jsonDownloader.py, over oauth_request *)

\* Where oauth_request starts: oauth.headers() fetches a token when none is
\* held or the held one has expired (time is not modelled: it may have).
OAuthEntry(tok) == IF tok THEN {"request", "token"} ELSE {"token"}

\* oauth.headers() runs RedditOAuth.fetch: a POST to the token URL.
JTokenFetch ==
    /\ impl = "json" /\ fpc \in {"token", "token401"}
    /\ \/ /\ tokenOk' = TRUE
          /\ all429' = FALSE
          /\ fpc' = (IF fpc = "token" THEN "request" ELSE "request401")
          /\ UNCHANGED <<attempt, sleeps, lastSleep, err, status, hdr>>
       \/ \* the POST raises, or r.raise_for_status() does: a RequestException
          /\ tokenOk' = FALSE
          /\ all429' = all429
          /\ status' = 0 /\ hdr' = None
          /\ OnRequestException({"token"})
    /\ UNCHANGED <<impl, max_retries, requests>>
    /\ UNCHANGED <<commentVars, videoVars, archiveVars>>

\* SESSION.request inside oauth_request raises.
JTransportError ==
    /\ impl = "json" /\ fpc \in {"request", "request401"}
    /\ requests < ReqCap
    /\ requests' = requests + 1
    /\ status' = 0 /\ hdr' = None /\ all429' = FALSE
    /\ OnRequestException(OAuthEntry(tokenOk))
    /\ UNCHANGED <<impl, max_retries, tokenOk>>
    /\ UNCHANGED <<commentVars, videoVars, archiveVars>>

\* The first response of a round is 401: drop the token, fetch a new one and
\* send the request once more.
JUnauthorized ==
    /\ impl = "json" /\ fpc = "request"
    /\ requests < ReqCap
    /\ requests' = requests + 1
    /\ status' = 401 /\ hdr' = None /\ all429' = FALSE
    /\ tokenOk' = FALSE
    /\ fpc' = "token401"
    /\ UNCHANGED <<impl, max_retries, attempt, sleeps, lastSleep, err>>
    /\ UNCHANGED <<commentVars, videoVars, archiveVars>>

\* The response is 429: oauth_request sleeps and sends the request again,
\* however often that has happened.
JRateLimited ==
    /\ impl = "json" /\ fpc \in {"request", "request401"}
    /\ \E h \in RetryAfterValues :
        /\ requests' = IF requests < ReqCap THEN requests + 1 ELSE requests
        /\ status' = 429 /\ hdr' = h
        /\ all429' = all429
        /\ sleeps' = IF sleeps < ReqCap + MaxRetries THEN sleeps + 1 ELSE sleeps
        /\ lastSleep' = OAuthDelay(h)
        /\ fpc' = "request"
    /\ UNCHANGED <<impl, max_retries, attempt, err, tokenOk>>
    /\ UNCHANGED <<commentVars, videoVars, archiveVars>>

\* oauth_request returns the response to request_with_backoff.
JResponse ==
    /\ impl = "json" /\ fpc \in {"request", "request401"}
    /\ requests < ReqCap
    /\ \E o \in Outcomes :
        /\ ~o.exc /\ o.status # 429 /\ ~(fpc = "request" /\ o.status = 401)
        /\ requests' = requests + 1
        /\ status' = o.status /\ hdr' = o.hdr
        /\ all429' = FALSE
        /\ IF IsRetryable(o.status)
           THEN IF BudgetExhausted(attempt, max_retries)
                THEN Raise("HTTPError")
                ELSE \E j \in Jitter, n \in OAuthEntry(tokenOk) :
                        SleepThenRetry(JsonRetryAfterDelay(o.hdr, attempt) + j, n)
           ELSE IF RaisesForStatus(o.status)
                THEN Raise("HTTPError")
                ELSE /\ fpc' = "returned"
                     /\ UNCHANGED <<attempt, sleeps, lastSleep, err>>
    /\ UNCHANGED <<impl, max_retries, tokenOk>>
    /\ UNCHANGED <<commentVars, videoVars, archiveVars>>

----------------------------------------------------------------------------
(* JSON values as Python holds them *)

Null == [t |-> "null"]
Str(x) == [t |-> "str", s |-> x]
List(xs) == [t |-> "list", items |-> xs]
Dict(f) == [t |-> "dict", m |-> f]
EmptyList == List(<<>>)
EmptyDict == Dict(<<>>)
False == [t |-> "bool", b |-> FALSE]

\* d.get(k, dflt) and d.get(k)
GetOr(d, k, dflt) == IF k \in DOMAIN d.m THEN d.m[k] ELSE dflt
Get(d, k) == GetOr(d, k, Null)

\* bool(v)
Truthy(v) ==
    CASE v.t = "null" -> FALSE
      [] v.t = "str"  -> v.s # ""
      [] v.t = "list" -> v.items # <<>>
      [] v.t = "dict" -> DOMAIN v.m # {}
      [] v.t = "bool" -> v.b
      [] OTHER        -> TRUE

\* A key the JSON object does not have.
Absent == [t |-> "absent"]

Field(k, v) == IF v = Absent THEN <<>> ELSE <<<<k, v>>>>

\* The dict of a sequence of (key, value) pairs.
Obj(pairs) ==
    Dict([k \in {pairs[i][1] : i \in DOMAIN pairs} |->
            pairs[CHOOSE i \in DOMAIN pairs : pairs[i][1] = k][2]])

----------------------------------------------------------------------------
(* The listings extract_comments is run on.  A node's id is its path from   *)
(* the root listing: <<2, 1>> is the first child of the second top node.  *)

ListingNode(children) ==
    Dict([kind |-> Str("Listing"), data |-> Dict([children |-> List(children)])])

\* A comment whose data has no "replies" key.
BareComment(id) ==
    Dict([kind |-> Str("t1"), data |-> Dict([id |-> id])])

CommentNode(id, replies) ==
    Dict([kind |-> Str("t1"), data |-> Dict([id |-> id, replies |-> replies])])

\* The "load more comments" stub Reddit puts among the children.
MoreNode(id) ==
    Dict([kind |-> Str("more"), data |-> Dict([id |-> id])])

RECURSIVE Forests(_, _, _)
RECURSIVE Trees(_, _)

\* The sequences of trees of n nodes in all, under parent p, from child i on.
Forests(n, p, i) ==
    IF n = 0 THEN {<<>>}
    ELSE UNION {{<<tr>> \o f : tr \in Trees(k, Append(p, i)),
                               f \in Forests(n - k, p, i + 1)} : k \in 1..n}

\* The trees of exactly k nodes whose root has the given id; a comment without
\* replies comes in each shape Reddit sends or may send.
Trees(k, id) ==
    IF k = 1
    THEN {BareComment(id), CommentNode(id, Str("")), CommentNode(id, Null),
          CommentNode(id, ListingNode(<<>>)), MoreNode(id)}
    ELSE {CommentNode(id, ListingNode(f)) : f \in Forests(k - 1, id, 1)}

Listings == UNION {{ListingNode(f) : f \in Forests(n, <<>>, 1)} : n \in 0..MaxNodes}

\* A node of the given kind whose "data" is v (Absent: no "data" key).
NodeOf(kind, v) == Obj(<<<<"kind", Str(kind)>>>> \o Field("data", v))

\* The shapes of "data" a partial payload may have, next to the full one.
BrokenData == {Absent, Null, Str("junk"), EmptyDict, Dict([children |-> Null]),
               Dict([children |-> Str("junk")])}

\* The nodes a partial or unexpected payload may hold at path id.
PayloadNodes(id) ==
    {Null, Str("junk"), MoreNode(id), BareComment(id), CommentNode(id, Str(""))}
    \cup {NodeOf("t1", v) : v \in {Absent, Null, Str("junk")}}
    \cup {Dict([kind |-> Str("t1"), data |-> Dict([id |-> id, permalink |-> Null])])}
    \cup {CommentNode(id, NodeOf("Listing", v)) : v \in BrokenData}
    \cup {CommentNode(id, ListingNode(<<BareComment(Append(id, 1)), Str("junk")>>))}
    \cup {NodeOf("Listing", v) : v \in BrokenData}

\* The payloads: a listing of up to two such nodes, or a root that is itself
\* partial.
Payloads ==
    {ListingNode(<<>>)}
    \cup {ListingNode(<<a>>) : a \in PayloadNodes(<<1>>)}
    \cup {ListingNode(<<a, b>>) : a \in PayloadNodes(<<1>>), b \in PayloadNodes(<<2>>)}
    \cup {NodeOf("Listing", v) : v \in BrokenData}
    \cup {Null, Str("junk")}

----------------------------------------------------------------------------
(* extract_comments: the pieces both files share *)

\* A depth test that is off by one.
PrunedLate(depth, rem) == rem <= 0 \/ depth > max_depth + 1

\* remaining[0] <= 0 or depth > max_depth
Pruned(depth, rem) == rem <= 0 \/ depth > max_depth

\* if remaining[0] <= 0: break
LoopDone(rem) == rem <= 0

\* A conversion that takes two from the budget.
ConvertedTwice(st, data) ==
    [st EXCEPT !.rem = @ - 2, !.log = Append(@, Get(data, "id"))]

\* A conversion that forgets to count.
ConvertedUncounted(st, data) ==
    [st EXCEPT !.log = Append(@, Get(data, "id"))]

\* remaining[0] -= 1 (the ids of the nodes converted are kept for the record)
Converted(st, data) ==
    [st EXCEPT !.rem = @ - 1, !.log = Append(@, Get(data, "id"))]

\* The exception leaves the call.
Fail(st) == [st EXCEPT !.raised = TRUE]

\* An insertion at the front.
ListPrepend(xs, x) == <<x>> \o xs

\* list.append
ListAppend(xs, x) == Append(xs, x)

\* An item that keeps the source's replies value when it is no listing.
NewItemRawReplies(data) ==
    Dict([id |-> Get(data, "id"),
          replies |-> IF Get(data, "replies").t = "dict" THEN EmptyList
                      ELSE Get(data, "replies")])

\* The item of a comment, its "replies" an empty list.  The other fields are
\* copies of data.get(...) and are left out.
NewItem(data) == Dict([id |-> Get(data, "id"), replies |-> EmptyList])

\* item["replies"].append(child_obj)
AppendReply(item, child) ==
    Dict([item.m EXCEPT !.replies = List(ListAppend(@.items, child))])

\* n.get("data", {}).get("children", []) as the for loop reads it: not ok when
\* the lookup or the iteration raises.  The elements of a string or of a dict
\* are strings, which walk passes over: they are left out.
ChildList(n) ==
    LET d == GetOr(n, "data", EmptyDict) IN
    IF d.t # "dict" THEN [ok |-> FALSE, items |-> <<>>]
    ELSE LET c == GetOr(d, "children", EmptyList) IN
         CASE c.t = "list" -> [ok |-> TRUE, items |-> c.items]
           [] c.t = "null" -> [ok |-> FALSE, items |-> <<>>]
           [] OTHER        -> [ok |-> TRUE, items |-> <<>>]

Ret(o, st) == [obj |-> o, st |-> st]

StartState == [rem |-> max_count, collected |-> <<>>, log |-> <<>>, raised |-> FALSE]

----------------------------------------------------------------------------
(* extract_comments of script.py *)

RECURSIVE walk(_, _, _)
RECURSIVE walk_replies(_, _, _, _)
RECURSIVE walk_listing(_, _, _)

walk(node, depth, st) ==
    IF Pruned(depth, st.rem) THEN Ret(Null, st)
    ELSE IF node.t # "dict" THEN Ret(Null, st)
    ELSE
      LET kind == Get(node, "kind")
          data == GetOr(node, "data", EmptyDict)
      IN
      IF kind = Str("t1") THEN
          \* "https://www.reddit.com" + data.get("permalink", "") raises on a non-string
          IF data.t # "dict" \/ GetOr(data, "permalink", Str("")).t # "str"
          THEN Ret(Null, Fail([st EXCEPT !.rem = @ - 1]))
          ELSE
            LET st1 == Converted(st, data)
                replies == Get(data, "replies")
            IN
            IF Truthy(replies) /\ replies.t = "dict"
            THEN LET ch == ChildList(replies) IN
                 IF ~ch.ok THEN Ret(Null, Fail(st1))
                 ELSE LET r == walk_replies(ch.items, depth + 1, st1, NewItem(data))
                      IN Ret(r.item, r.st)
            ELSE Ret(NewItem(data), st1)
      ELSE IF kind = Str("Listing") THEN
          LET ch == ChildList(node) IN
          IF ~ch.ok THEN Ret(Null, Fail(st))
          ELSE Ret(Null, walk_listing(ch.items, depth, st))
      ELSE Ret(Null, st)

\* for ch in children: ... item["replies"].append(child_obj)
walk_replies(children, depth, st, item) ==
    IF children = <<>> \/ st.raised \/ LoopDone(st.rem)
    THEN [item |-> item, st |-> st]
    ELSE LET w == walk(Head(children), depth, st) IN
         walk_replies(Tail(children), depth, w.st,
                      IF Truthy(w.obj) /\ ~w.st.raised
                      THEN AppendReply(item, w.obj) ELSE item)

\* for ch in node["data"]["children"]: ... collected.append(obj)
walk_listing(children, depth, st) ==
    IF children = <<>> \/ st.raised \/ LoopDone(st.rem)
    THEN st
    ELSE LET w == walk(Head(children), depth, st) IN
         walk_listing(Tail(children), depth,
                      IF Truthy(w.obj) /\ ~w.st.raised
                      THEN [w.st EXCEPT !.collected = ListAppend(@, w.obj)]
                      ELSE w.st)

extract_comments(listing_node) == walk(listing_node, 1, StartState).st

----------------------------------------------------------------------------
(* extract_comments of jsonDownloader.py *)

RECURSIVE json_walk(_, _, _)
RECURSIVE json_walk_replies(_, _, _, _)
RECURSIVE json_walk_listing(_, _, _)

json_walk(node, depth, st) ==
    IF Pruned(depth, st.rem) THEN Ret(Null, st)
    ELSE IF node.t # "dict" THEN Ret(Null, st)
    ELSE
      LET kind == Get(node, "kind")
          data == GetOr(node, "data", EmptyDict)
      IN
      IF kind = Str("t1") THEN
          IF data.t # "dict"
          THEN Ret(Null, Fail([st EXCEPT !.rem = @ - 1]))
          ELSE
            LET st1 == Converted(st, data)
                replies == GetOr(data, "replies", Str(""))
                ch == IF replies.t = "dict" THEN ChildList(replies)
                      ELSE [ok |-> TRUE, items |-> <<>>]
            IN
            IF ~ch.ok THEN Ret(Null, Fail(st1))
            ELSE LET r == json_walk_replies(ch.items, depth + 1, st1, NewItem(data)) IN
                 IF r.st.raised THEN Ret(Null, r.st)
                 ELSE Ret(r.item, [r.st EXCEPT !.collected = ListAppend(@, r.item)])
      ELSE IF kind = Str("Listing") THEN
          LET ch == ChildList(node) IN
          IF ~ch.ok THEN Ret(Null, Fail(st))
          ELSE Ret(Null, json_walk_listing(ch.items, depth, st))
      ELSE Ret(Null, st)

\* for ch in children: ... if not isinstance(ch, dict): continue ...
json_walk_replies(children, depth, st, item) ==
    IF children = <<>> \/ st.raised \/ LoopDone(st.rem)
    THEN [item |-> item, st |-> st]
    ELSE IF Head(children).t # "dict"
    THEN json_walk_replies(Tail(children), depth, st, item)
    ELSE LET w == json_walk(Head(children), depth, st) IN
         json_walk_replies(Tail(children), depth, w.st,
                           IF Truthy(w.obj) /\ ~w.st.raised
                           THEN AppendReply(item, w.obj) ELSE item)

\* for ch in children: walk(ch, depth, remaining), the result dropped
json_walk_listing(children, depth, st) ==
    IF children = <<>> \/ st.raised \/ LoopDone(st.rem)
    THEN st
    ELSE json_walk_listing(Tail(children), depth,
                           json_walk(Head(children), depth, st).st)

json_extract_comments(listing_node) == json_walk(listing_node, 1, StartState).st

----------------------------------------------------------------------------
(* The posts download_video is run on *)

\* A URL.  Python holds it as a non-empty str; the model keeps the parts the
\* code looks at.
Url(scheme, host, id, leaf) ==
    [t |-> "url", scheme |-> scheme, host |-> host, id |-> id, leaf |-> leaf]

\* A reddit_video payload found at `at`, with or without its two URLs.
RedditVideo(at, dash, fb) ==
    Obj(<<<<"duration", Str("9")>>>>
        \o Field("dash_url",
                 IF dash THEN Url("https", "v.redd.it", at, "DASHPlaylist.mpd") ELSE Absent)
        \o Field("fallback_url",
                 IF fb THEN Url("https", "v.redd.it", at, "DASH_720.mp4") ELSE Absent))

MediaOf(rv) == Obj(<<<<"reddit_video", rv>>>>)

PostOf(sm, md, parents, url) ==
    Obj(<<<<"title", Str("clip")>>>>
        \o Field("secure_media", sm)
        \o Field("media", md)
        \o Field("crosspost_parent_list", parents)
        \o Field("url", url))

Posts ==
    {PostOf(sm, md, ps, u) :
        sm \in {Absent, Null} \cup
               {MediaOf(RedditVideo("secure_media", d, f)) : d \in BOOLEAN, f \in BOOLEAN},
        md \in {Absent, MediaOf(RedditVideo("media", FALSE, TRUE))},
        ps \in {Absent,
                List(<<PostOf(Absent, Absent, Absent, Absent)>>),
                List(<<PostOf(Null, Absent, Absent, Absent),
                       PostOf(Absent, MediaOf(RedditVideo("parent", TRUE, FALSE)),
                              Absent, Absent)>>)},
        u \in {Absent,
               Url("https", "v.redd.it", "post", ""),
               Url("https", "example.com", "post", "")}}

----------------------------------------------------------------------------
(* DASH manifests, as pick_best_from_mpd reads them *)

\* A Representation: its bandwidth attribute as int() reads it, and its
\* BaseURL child (None when it has none).
Rep(bw, name) == [bandwidth |-> bw, base |-> name]

ASet(mime, reps) == [mimeType |-> mime, reps |-> reps]

Mpd(ok, base, asets) == [wellformed |-> ok, base_url |-> base, asets |-> asets]

VideoSet == ASet("video/mp4", <<Rep(1, "DASH_480.mp4"), Rep(2, "DASH_720.mp4"), Rep(3, None)>>)
AudioSet == ASet("audio/mp4", <<Rep(1, "DASH_AUDIO_128.mp4")>>)
Mpds ==
    {Mpd(FALSE, "", <<>>),
     Mpd(TRUE, "", <<>>),
     Mpd(TRUE, "", <<VideoSet>>),
     Mpd(TRUE, "https://v.redd.it/x/", <<AudioSet>>),
     Mpd(TRUE, "https://v.redd.it/x/", <<AudioSet, VideoSet>>),
     Mpd(TRUE, "", <<ASet("video/mp4", <<Rep(0, "DASH_96.mp4")>>)>>)}

\* urljoin(base_url, url), for the one base URL and the relative BaseURL texts
\* of the model.
urljoin(base_url, name) ==
    CASE name = "DASH_96.mp4"        -> "https://v.redd.it/x/DASH_96.mp4"
      [] name = "DASH_480.mp4"       -> "https://v.redd.it/x/DASH_480.mp4"
      [] name = "DASH_720.mp4"       -> "https://v.redd.it/x/DASH_720.mp4"
      [] name = "DASH_AUDIO_128.mp4" -> "https://v.redd.it/x/DASH_AUDIO_128.mp4"
      [] name = "1_1.mp4"            -> "https://v.redd.it/x/1_1.mp4"
      [] name = "1_2.mp4"            -> "https://v.redd.it/x/1_2.mp4"
      [] name = "2_1.mp4"            -> "https://v.redd.it/x/2_1.mp4"
      [] name = "2_2.mp4"            -> "https://v.redd.it/x/2_2.mp4"

\* if base_url and not url.lower().startswith(("http://", "https://")):
\* url = urljoin(base_url, url).  BaseURL texts are relative.
Resolve(base_url, name) == IF base_url # "" THEN urljoin(base_url, name) ELSE name

\* The inner loop body for one Representation.
PickRep(best, mime, base_url, rep) ==
    IF rep.base = None
    THEN best
    ELSE IF mime \in {"video/mp4", "video/webm"} /\ rep.bandwidth > best.video[1]
         THEN [best EXCEPT !.video = <<rep.bandwidth, Resolve(base_url, rep.base)>>]
         ELSE IF mime \in {"audio/mp4", "audio/webm"} /\ rep.bandwidth > best.audio[1]
              THEN [best EXCEPT !.audio = <<rep.bandwidth, Resolve(base_url, rep.base)>>]
              ELSE best

RECURSIVE PickReps(_, _, _, _, _)
PickReps(best, mime, base_url, reps, i) ==
    IF i > Len(reps)
    THEN best
    ELSE PickReps(PickRep(best, mime, base_url, reps[i]), mime, base_url, reps, i + 1)

RECURSIVE PickSets(_, _, _, _)
PickSets(best, base_url, asets, i) ==
    IF i > Len(asets)
    THEN best
    ELSE PickSets(PickReps(best, asets[i].mimeType, base_url, asets[i].reps, 1),
                  base_url, asets, i + 1)

\* (v_url, a_url) of a well-formed manifest.
pick_best_from_mpd(mpd) ==
    LET best == PickSets([video |-> <<0, None>>, audio |-> <<0, None>>],
                         mpd.base_url, mpd.asets, 1)
    IN  [v_url |-> best.video[2], a_url |-> best.audio[2]]

----------------------------------------------------------------------------
(* download_video of script.py: the local pieces *)

\* x.get(k) and x[k].get("reddit_video")
CarriesVideo(x, k) == Truthy(Get(x, k)) /\ Truthy(Get(Get(x, k), "reddit_video"))

RECURSIVE ParentVideo(_, _)
ParentVideo(ps, i) ==
    IF i > Len(ps)
    THEN Null
    ELSE IF CarriesVideo(ps[i], "secure_media")
         THEN Get(Get(ps[i], "secure_media"), "reddit_video")
         ELSE IF CarriesVideo(ps[i], "media")
              THEN Get(Get(ps[i], "media"), "reddit_video")
              ELSE ParentVideo(ps, i + 1)

\* A search that looks at media before secure_media.
locate_rv_media_first(p) ==
    IF CarriesVideo(p, "media")
    THEN Get(Get(p, "media"), "reddit_video")
    ELSE IF CarriesVideo(p, "secure_media")
         THEN Get(Get(p, "secure_media"), "reddit_video")
         ELSE IF Truthy(Get(p, "crosspost_parent_list"))
              THEN ParentVideo(Get(p, "crosspost_parent_list").items, 1)
              ELSE Null

\* rv, or Null when no payload is found.
locate_rv(p) ==
    IF CarriesVideo(p, "secure_media")
    THEN Get(Get(p, "secure_media"), "reddit_video")
    ELSE IF CarriesVideo(p, "media")
         THEN Get(Get(p, "media"), "reddit_video")
         ELSE IF Truthy(Get(p, "crosspost_parent_list"))
              THEN ParentVideo(Get(p, "crosspost_parent_list").items, 1)
              ELSE Null

RvGet(rv, k) == IF Truthy(rv) THEN Get(rv, k) ELSE Null

\* post.get("url_overridden_by_dest") or post.get("url", "")
PostUrl(p) ==
    IF Truthy(Get(p, "url_overridden_by_dest"))
    THEN Get(p, "url_overridden_by_dest")
    ELSE GetOr(p, "url", Str(""))

\* "v.redd.it" in url
IsNative(u) == u.t = "url" /\ u.host = "v.redd.it"

\* dash_url after the synthesis from the post's own URL.
DashUrl(p) ==
    LET d == RvGet(locate_rv(p), "dash_url")
    IN  IF Truthy(d)
        THEN d
        ELSE IF IsNative(PostUrl(p))
             THEN [PostUrl(p) EXCEPT !.leaf = "DASHPlaylist.mpd"]
             ELSE d

\* str.lower(), on the strings the posts carry.
Lower(x) ==
    CASE x = "IMAGE" -> "image"
      [] x = "I.REDD.IT" -> "i.redd.it"
      [] x = "V.REDD.IT" -> "v.redd.it"
      [] OTHER -> x

\* A default that is not applied to null.
OrEmptyKeepsNull(v) == v

\* x or ""
OrEmpty(v) == IF Truthy(v) THEN v ELSE Str("")

\* (x or "").lower(); a value without a lower method raises.
LowerOrEmpty(v) ==
    LET x == OrEmpty(v) IN
    CASE x.t = "url" -> [x EXCEPT !.host = Lower(@)]
      [] x.t = "str" -> Str(Lower(x.s))
      [] OTHER       -> [t |-> "raise"]

\* post.get(k) and post[k].get("reddit_video"); a truthy post[k] without a
\* get method raises.
MediaRaises(p, k) == Truthy(Get(p, k)) /\ Get(p, k).t # "dict"

\* A rule order with the video rule first.
DecideVideoFirst(gallery, video, image, self) ==
    IF video THEN "video"
    ELSE IF gallery THEN "gallery"
    ELSE IF image THEN "image"
    ELSE IF self THEN "self" ELSE "external"

\* The chain of returns, lines 148-156.
Decide(gallery, video, image, self) ==
    IF gallery THEN "gallery"
    ELSE IF video THEN "video"
    ELSE IF image THEN "image"
    ELSE IF self THEN "self" ELSE "external"

classify_media_kind(p) ==
    LET url == LowerOrEmpty(IF Truthy(Get(p, "url_overridden_by_dest"))
                            THEN Get(p, "url_overridden_by_dest")
                            ELSE Get(p, "url"))
        domain == LowerOrEmpty(Get(p, "domain"))
        post_hint == LowerOrEmpty(Get(p, "post_hint"))
        gallery == Truthy(GetOr(p, "is_gallery", False))
    IN  IF "raise" \in {url.t, domain.t, post_hint.t}
        THEN "AttributeError"
        ELSE IF ~gallery /\ ~IsNative(url)
                /\ (MediaRaises(p, "secure_media")
                    \/ (~CarriesVideo(p, "secure_media") /\ MediaRaises(p, "media")))
        THEN "AttributeError"
        ELSE Decide(gallery,
                    \/ IsNative(url)
                    \/ CarriesVideo(p, "secure_media")
                    \/ CarriesVideo(p, "media")
                    \/ Truthy(Get(p, "crosspost_parent_list")),
                    post_hint = Str("image")
                        \/ domain \in {Str("i.redd.it"), Str("i.reddituploads.com")},
                    Truthy(GetOr(p, "is_self", False)))

\* classify_media_kind of jsonDownloader.py: the same chain, written with elif.
json_classify_media_kind(p) ==
    LET url == LowerOrEmpty(IF Truthy(Get(p, "url_overridden_by_dest"))
                            THEN Get(p, "url_overridden_by_dest")
                            ELSE Get(p, "url"))
        domain == LowerOrEmpty(Get(p, "domain"))
        post_hint == LowerOrEmpty(Get(p, "post_hint"))
        gallery == Truthy(GetOr(p, "is_gallery", False))
    IN  IF "raise" \in {url.t, domain.t, post_hint.t}
        THEN "AttributeError"
        ELSE IF ~gallery /\ ~IsNative(url)
                /\ (MediaRaises(p, "secure_media")
                    \/ (~CarriesVideo(p, "secure_media") /\ MediaRaises(p, "media")))
        THEN "AttributeError"
        ELSE Decide(gallery,
                    \/ IsNative(url)
                    \/ CarriesVideo(p, "secure_media")
                    \/ CarriesVideo(p, "media")
                    \/ Truthy(Get(p, "crosspost_parent_list")),
                    post_hint = Str("image")
                        \/ domain \in {Str("i.redd.it"), Str("i.reddituploads.com")},
                    Truthy(GetOr(p, "is_self", False)))

\* os.path.join(base_dir, f"{title}.video.mp4") and the like: the file name
\* as the parts the f-string puts together, for the title "clip".
v_path == <<"clip", ".video.mp4">>
a_path == <<"clip", ".audio.mp4">>
out_path == <<"clip", ".mp4">>
Paths == {v_path, a_path, out_path}

NoPick == [v_url |-> None, a_url |-> None]
\* No manifest has been read.
NoManifest == [read |-> FALSE]
\* merged = None: no path
NoPath == <<>>

NewMedia == [kind |-> "video", files |-> <<>>, merged |-> NoPath]

VideoIdle ==
    /\ post = Null
    /\ dpc = "idle"
    /\ fetchFor = None
    /\ media = NewMedia
    /\ fs = [p \in Paths |-> "absent"]
    /\ ffmpeg = FALSE
    /\ pick = NoPick
    /\ fallback = Null
    /\ derr = None
    /\ media_kind = None
    /\ calls = <<>>
    /\ manifest = NoManifest

\* No call of archive_one is under way.
NoArchive == [made |-> FALSE]

\* No batch driver is running.
NoBatch ==
    [total |-> 0, size |-> 0, i |-> 0, j |-> 0, log |-> <<>>, done |-> FALSE,
     results |-> [success |-> 0, skipped |-> 0, failed |-> 0]]

ArchiveIdle ==
    /\ download_media = FALSE
    /\ archive = NoArchive
    /\ body = Absent
    /\ batch = NoBatch

----------------------------------------------------------------------------
(* One call of extract_comments, of either file *)

NoOutput == [rem |-> 0, collected |-> <<>>, log |-> <<>>, raised |-> FALSE]

CommentsIdle ==
    /\ listing = Null
    /\ max_depth = 0
    /\ max_count = 0
    /\ cpc = "idle"
    /\ out = NoOutput

FetchIdle ==
    /\ max_retries = 0
    /\ attempt = 0
    /\ fpc = "idle"
    /\ requests = 0
    /\ status = 0
    /\ hdr = None
    /\ sleeps = 0
    /\ lastSleep = 0
    /\ err = None
    /\ tokenOk = FALSE
    /\ all429 = TRUE

CommentsInit ==
    /\ impl \in {"script", "json"}
    /\ listing \in Listings
    /\ max_depth \in 0..MaxNodes
    /\ max_count \in -1..(MaxNodes + 1)
    /\ cpc = "ready"
    /\ out = NoOutput
    /\ FetchIdle
    /\ VideoIdle
    /\ ArchiveIdle

ExtractComments ==
    /\ cpc = "ready" /\ impl = "script"
    /\ out' = extract_comments(listing)
    /\ cpc' = "done"
    /\ UNCHANGED <<listing, max_depth, max_count>>
    /\ UNCHANGED <<fetchVars, videoVars, archiveVars>>

JsonExtractComments ==
    /\ cpc = "ready" /\ impl = "json"
    /\ out' = json_extract_comments(listing)
    /\ cpc' = "done"
    /\ UNCHANGED <<listing, max_depth, max_count>>
    /\ UNCHANGED <<fetchVars, videoVars, archiveVars>>

CommentsNext == ExtractComments \/ JsonExtractComments

SpecComments == CommentsInit /\ [][CommentsNext]_vars

\* The same call on a partial or unexpected payload.
PayloadsInit ==
    /\ impl \in {"script", "json"}
    /\ listing \in Payloads
    /\ max_depth \in 0..MaxNodes
    /\ max_count \in 0..(MaxNodes + 1)
    /\ cpc = "ready"
    /\ out = NoOutput
    /\ FetchIdle
    /\ VideoIdle
    /\ ArchiveIdle

SpecPayloads == PayloadsInit /\ [][CommentsNext]_vars

----------------------------------------------------------------------------
(* One call of request_with_backoff, of either file *)

FetchInit ==
    /\ impl \in {"script", "json"}
    /\ max_retries \in 0..MaxRetries \cup (IF impl = "script" THEN {LongBudget} ELSE {})
    /\ attempt = 0
    /\ tokenOk \in (IF impl = "json" THEN BOOLEAN ELSE {FALSE})
    /\ fpc \in (IF impl = "json" THEN OAuthEntry(tokenOk) ELSE {"request"})
    /\ requests = 0
    /\ status = 0
    /\ hdr = None
    /\ sleeps = 0
    /\ lastSleep = 0
    /\ err = None
    /\ all429 = TRUE

Init == FetchInit /\ CommentsIdle /\ VideoIdle /\ ArchiveIdle

Next ==
    \/ STransportError \/ SRetryableStatus \/ SClientError \/ SReturn
    \/ JTokenFetch \/ JTransportError \/ JUnauthorized \/ JRateLimited \/ JResponse

Spec == Init /\ [][Next]_vars

----------------------------------------------------------------------------
(* One call of download_video of script.py *)

VideoInit ==
    /\ impl = "script"
    /\ max_retries \in {0, MaxRetries}
    /\ attempt = 0
    /\ fpc = "idle"
    /\ requests = 0
    /\ status = 0
    /\ hdr = None
    /\ sleeps = 0
    /\ lastSleep = 0
    /\ err = None
    /\ tokenOk = FALSE
    /\ all429 = TRUE
    /\ CommentsIdle
    /\ post \in {p \in Posts : classify_media_kind(p) = "video"}
    /\ dpc = "start"
    /\ fetchFor = None
    /\ media = NewMedia
    /\ fs = [p \in Paths |-> "absent"]
    /\ ffmpeg \in BOOLEAN
    /\ pick = NoPick
    /\ fallback = Null
    /\ derr = None
    /\ media_kind = None
    /\ calls = <<>>
    /\ manifest = NoManifest
    /\ ArchiveIdle

\* request_with_backoff(...) is entered; pc is where its caller waits.
BeginFetchAt(pc, purpose) ==
    /\ dpc' = pc
    /\ fetchFor' = purpose
    /\ fpc' = "request"
    /\ attempt' = 0
    /\ requests' = 0
    /\ status' = 0
    /\ hdr' = None
    /\ sleeps' = 0
    /\ lastSleep' = 0
    /\ err' = None
    /\ all429' = TRUE
    /\ derr' = derr
    /\ calls' = Append(calls, purpose)

\* No request is running: download_video moves to pc (with e when it raises),
\* having run the programs evs.
EndCallAfter(pc, e, evs) ==
    /\ dpc' = pc
    /\ derr' = e
    /\ calls' = calls \o evs
    /\ UNCHANGED <<fetchFor, attempt, fpc, requests, status, hdr, sleeps, lastSleep,
                   err, all429>>

EndCall(pc, e) == EndCallAfter(pc, e, <<>>)

\* A fallback that is tried without a fallback_url.
FallbackAlways(fb) == BeginFetchAt("fetch", "fallback")

\* Lines 235-239: the fallback MP4, or media as it is.
FallbackOrReturn(fb) ==
    IF Truthy(fb) THEN BeginFetchAt("fetch", "fallback") ELSE EndCall("returned", None)

\* Lines 186-207: locate the payload and the two URLs.
DvStart ==
    /\ dpc = "start"
    /\ fallback' = RvGet(locate_rv(post), "fallback_url")
    /\ IF ~Truthy(RvGet(locate_rv(post), "dash_url")) /\ PostUrl(post).t \notin {"str", "url"}
       THEN EndCall("raised", "TypeError")
       ELSE IF Truthy(DashUrl(post))
            THEN BeginFetchAt("fetch", "manifest")
            ELSE FallbackOrReturn(fallback')
    /\ UNCHANGED <<post, media, fs, ffmpeg, pick, media_kind, manifest>>
    /\ UNCHANGED <<impl, max_retries, tokenOk>>
    /\ UNCHANGED <<commentVars, archiveVars>>

\* request_with_backoff raised: the exception leaves download_video.
DvFetchFailed ==
    /\ dpc = "fetch" /\ fpc = "raised"
    /\ EndCall("raised", err)
    /\ UNCHANGED <<post, media, fs, ffmpeg, pick, fallback, media_kind, manifest>>
    /\ UNCHANGED <<impl, max_retries, tokenOk>>
    /\ UNCHANGED <<commentVars, archiveVars>>

\* Lines 210-219: the manifest request returned r.
DvManifest ==
    /\ dpc = "fetch" /\ fpc = "returned"
    /\ fetchFor \in {"manifest", "manifest_http"}
    /\ IF fetchFor = "manifest" /\ status = 403
       THEN /\ BeginFetchAt("fetch", "manifest_http")
            /\ pick' = pick
            /\ manifest' = manifest
       ELSE \E mpd \in Mpds :
            /\ manifest' = mpd
            /\ IF ~mpd.wellformed
               THEN /\ EndCall("raised", "ParseError")
                    /\ pick' = pick
               ELSE
                 /\ pick' = pick_best_from_mpd(mpd)
                 /\ IF pick'.v_url # None
                    THEN BeginFetchAt("fetch", "video")
                    ELSE IF pick'.a_url # None
                         THEN BeginFetchAt("fetch", "audio")
                         ELSE FallbackOrReturn(fallback)
    /\ UNCHANGED <<post, media, fs, ffmpeg, fallback, media_kind>>
    /\ UNCHANGED <<impl, max_retries, tokenOk>>
    /\ UNCHANGED <<commentVars, archiveVars>>

\* An audio step that is taken for every manifest.
HasAudioAlways(p) == TRUE

\* if a_url: (lines 218 and 221)
HasAudio(p) == p.a_url # None

\* download_file: the body is streamed into outpath; then the code up to the
\* next request, the muxer, or the end of the call.
DvDownloaded ==
    /\ dpc = "fetch" /\ fpc = "returned"
    /\ fetchFor \in {"video", "audio", "fallback"}
    /\ LET path == CASE fetchFor = "video" -> v_path
                     [] fetchFor = "audio" -> a_path
                     [] OTHER -> out_path
       IN \E streamed \in BOOLEAN :
          IF ~streamed
          THEN /\ fs' = [fs EXCEPT ![path] = "partial"]
               /\ media' = media
               /\ EndCall("raised", "RequestException")
          ELSE CASE fetchFor = "video" ->
                    /\ media' = [media EXCEPT !.files = Append(@, v_path),
                                               !.merged = IF HasAudio(pick)
                                                          THEN @ ELSE out_path]
                    /\ IF HasAudio(pick)
                       THEN /\ fs' = [fs EXCEPT ![v_path] = "whole"]
                            /\ BeginFetchAt("fetch", "audio")
                       ELSE /\ fs' = [fs EXCEPT ![v_path] = "absent", ![out_path] = "whole"]
                            /\ EndCall("returned", None)
                [] fetchFor = "audio" ->
                    /\ fs' = [fs EXCEPT ![a_path] = "whole"]
                    /\ media' = [media EXCEPT !.files = Append(@, a_path)]
                    /\ IF ~ffmpeg
                       THEN EndCallAfter("raised", "RuntimeError", <<"probe">>)
                       ELSE EndCallAfter("mux", None, <<"probe">>)
                [] OTHER ->
                    /\ fs' = [fs EXCEPT ![out_path] = "whole"]
                    /\ media' = [media EXCEPT !.merged = out_path]
                    /\ EndCall("returned", None)
    /\ UNCHANGED <<post, ffmpeg, pick, fallback, media_kind, manifest>>
    /\ UNCHANGED <<impl, max_retries, tokenOk>>
    /\ UNCHANGED <<commentVars, archiveVars>>

\* A removal that forgets the audio file.
RemovedVideoOnly(f, removed) ==
    [f EXCEPT ![v_path] = IF removed = "none" THEN @ ELSE "absent"]

\* try: os.remove(v_path); os.remove(a_path) / except Exception: pass.
\* removed tells how far the two calls got: a failing first call skips the
\* second.
Removed(f, removed) ==
    [f EXCEPT ![v_path] = IF removed = "none" THEN @ ELSE "absent",
              ![a_path] = IF removed = "both" THEN "absent" ELSE @]

\* The os.remove calls made, a failing one marked.
RemoveCalls(removed) ==
    CASE removed = "none"  -> <<"remove failed">>
      [] removed = "video" -> <<"remove", "remove failed">>
      [] OTHER             -> <<"remove", "remove">>

\* Lines 224-229: ffmpeg is run on v_path and a_path; on success the two
\* inputs are removed (a failing removal is swallowed) and media is returned.
DvMux ==
    /\ dpc = "mux"
    /\ \E ran \in {r \in BOOLEAN : r => fs[v_path] = "whole"} :
        IF ~ran
        THEN /\ \E o \in {fs[out_path], "partial"} : fs' = [fs EXCEPT ![out_path] = o]
             /\ media' = media
             /\ EndCallAfter("raised", "CalledProcessError", <<"mux">>)
        ELSE /\ \E removed \in {"none", "video", "both"} :
                /\ fs' = Removed([fs EXCEPT ![out_path] = "whole"], removed)
                /\ EndCallAfter("returned", None, <<"mux">> \o RemoveCalls(removed))
             /\ media' = [media EXCEPT !.merged = out_path]
    /\ UNCHANGED <<post, ffmpeg, pick, fallback, media_kind, manifest>>
    /\ UNCHANGED <<impl, max_retries, tokenOk>>
    /\ UNCHANGED <<commentVars, archiveVars>>

VideoNext ==
    \/ DvStart
    \/ STransportError \/ SRetryableStatus \/ SClientError \/ SReturn
    \/ DvFetchFailed \/ DvManifest \/ DvDownloaded \/ DvMux

SpecVideo == VideoInit /\ [][VideoNext]_vars

----------------------------------------------------------------------------
(* Calls of classify_media_kind, of either file *)

True == [t |-> "bool", b |-> TRUE]

\* The posts classified: every field the function reads is absent, null, or
\* a value of the field's type.
ClassifyPosts ==
    {Obj(Field("is_gallery", g) \o Field("url", u) \o Field("url_overridden_by_dest", o)
         \o Field("secure_media", sm) \o Field("media", md)
         \o Field("crosspost_parent_list", ps) \o Field("post_hint", h)
         \o Field("domain", d) \o Field("is_self", sf)) :
        g \in {Absent, Null, False, True},
        u \in {Absent, Null, Url("https", "V.REDD.IT", "post", ""),
               Url("https", "example.com", "post", "")},
        o \in {Absent, Url("https", "v.redd.it", "post", "")},
        sm \in {Absent, Null, EmptyDict, MediaOf(RedditVideo("secure_media", TRUE, TRUE))},
        md \in {Absent, Null, MediaOf(RedditVideo("media", FALSE, TRUE))},
        ps \in {Absent, Null, EmptyList, List(<<EmptyDict>>)},
        h \in {Absent, Null, Str("image"), Str("link")},
        d \in {Absent, Null, Str("I.REDD.IT"), Str("i.reddituploads.com"), Str("example.com")},
        sf \in {Absent, Null, False, True}}

ClassifyInit ==
    /\ impl \in {"script", "json"}
    /\ FetchIdle
    /\ CommentsIdle
    /\ post \in ClassifyPosts
    /\ dpc = "classify"
    /\ fetchFor = None
    /\ media = NewMedia
    /\ fs = [p \in Paths |-> "absent"]
    /\ ffmpeg = FALSE
    /\ pick = NoPick
    /\ fallback = Null
    /\ derr = None
    /\ media_kind = None
    /\ calls = <<>>
    /\ manifest = NoManifest
    /\ ArchiveIdle

\* media_kind = classify_media_kind(post), a first and a second time.
Classify ==
    /\ impl = "script" /\ dpc \in {"classify", "classified"}
    /\ media_kind' = classify_media_kind(post)
    /\ dpc' = IF dpc = "classify" THEN "classified" ELSE "again"
    /\ UNCHANGED <<post, fetchFor, media, fs, ffmpeg, pick, fallback, derr, calls,
                   manifest>>
    /\ UNCHANGED <<fetchVars, commentVars, archiveVars>>

JsonClassify ==
    /\ impl = "json" /\ dpc \in {"classify", "classified"}
    /\ media_kind' = json_classify_media_kind(post)
    /\ dpc' = IF dpc = "classify" THEN "classified" ELSE "again"
    /\ UNCHANGED <<post, fetchFor, media, fs, ffmpeg, pick, fallback, derr, calls,
                   manifest>>
    /\ UNCHANGED <<fetchVars, commentVars, archiveVars>>

ClassifyNext == Classify \/ JsonClassify

SpecClassify == ClassifyInit /\ [][ClassifyNext]_vars

----------------------------------------------------------------------------
(* Calls of pick_best_from_mpd *)

RepLists(i) ==
    LET names == <<(<<"1_1.mp4", "1_2.mp4">>), (<<"2_1.mp4", "2_2.mp4">>)>>
        R(j) == {Rep(bw, b) : bw \in 0..MaxBandwidth, b \in {None, names[i][j]}}
    IN
    {<<>>} \cup {<<a>> : a \in R(1)} \cup {<<a, b>> : a \in R(1), b \in R(2)}

ASets(i) ==
    {ASet(mime, reps) : mime \in {"video/mp4", "audio/mp4", "text/vtt"}, reps \in RepLists(i)}

MpdDocs ==
    {Mpd(FALSE, "", <<>>)} \cup
    {Mpd(TRUE, base, asets) :
        base \in {"", "https://v.redd.it/x/"},
        asets \in {<<>>} \cup {<<a>> : a \in ASets(1)}
                   \cup {<<a, b>> : a \in ASets(1), b \in ASets(2)}}

MpdInit ==
    /\ impl = "script"
    /\ FetchIdle
    /\ CommentsIdle
    /\ post = Null
    /\ dpc = "pick"
    /\ fetchFor = None
    /\ media = NewMedia
    /\ fs = [p \in Paths |-> "absent"]
    /\ ffmpeg = FALSE
    /\ pick = NoPick
    /\ fallback = Null
    /\ derr = None
    /\ media_kind = None
    /\ calls = <<>>
    /\ manifest \in MpdDocs
    /\ ArchiveIdle

\* v_url, a_url = pick_best_from_mpd(r.text); ET.fromstring raises on a
\* document that is not well-formed.
PickBest ==
    /\ dpc = "pick"
    /\ IF manifest.wellformed
       THEN /\ pick' = pick_best_from_mpd(manifest)
            /\ dpc' = "picked"
            /\ derr' = derr
       ELSE /\ pick' = pick
            /\ dpc' = "raised"
            /\ derr' = "ParseError"
    /\ UNCHANGED <<post, fetchFor, media, fs, ffmpeg, fallback, media_kind, calls, manifest>>
    /\ UNCHANGED <<fetchVars, commentVars, archiveVars>>

SpecMpd == MpdInit /\ [][PickBest]_vars

----------------------------------------------------------------------------
(* One call of download_gallery of script.py *)

\* The u of the source variant of a media id.
SourceUrl(id) ==
    IF id = "a" THEN "https://i.redd.it/a" ELSE "https://i.redd.it/b"

\* str.replace("&amp;", "&")
Unescape(u) ==
    CASE u = "https://preview.redd.it/a?width=640&amp;s=1"
            -> "https://preview.redd.it/a?width=640&s=1"
      [] u = "https://preview.redd.it/b?width=640&amp;s=1"
            -> "https://preview.redd.it/b?width=640&s=1"
      [] OTHER -> u

\* A media_metadata entry: s with the media type and the source URL, and p
\* absent, empty or with two previews.
MetaOf(id, mime, previews) ==
    Obj(<<<<"s", Dict([m |-> Str(mime), u |-> Str(SourceUrl(id))])>>>>
        \o Field("p", previews))

\* The entries a media id may have; Absent: the id has no entry.  The u of
\* the last preview has its "&" escaped, as Reddit sends it.
MetaValues(id) ==
    {Absent} \cup
    {MetaOf(id, mime, pv) :
        mime \in {"image/png", "image/gif", "image/jpg"},
        pv \in {Absent, EmptyList,
                List(<<Dict([u |-> Str("https://preview.redd.it/small")]),
                       Dict([u |-> Str(IF id = "a"
                                       THEN "https://preview.redd.it/a?width=640&amp;s=1"
                                       ELSE "https://preview.redd.it/b?width=640&amp;s=1")])>>)}}

ItemOf(id) == Dict([media_id |-> Str(id)])

RECURSIVE ItemLists(_)
ItemLists(n) ==
    IF n = 0 THEN {<<>>}
    ELSE ItemLists(n - 1) \cup
         {Append(xs, ItemOf(id)) : xs \in {ys \in ItemLists(n - 1) : Len(ys) = n - 1},
                                   id \in {"a", "b"}}

GalleryPosts ==
    {Obj(<<<<"is_gallery", True>>,
           <<"media_metadata", Obj(Field("a", ma) \o Field("b", mb))>>,
           <<"gallery_data", Dict([items |-> List(items)])>>>>) :
        ma \in MetaValues("a"), mb \in MetaValues("b"), items \in ItemLists(MaxItems)}
    \cup {Obj(<<<<"is_gallery", True>>>>),
          Obj(<<<<"is_gallery", True>>, <<"media_metadata", Null>>,
                <<"gallery_data", Null>>>>)}

Digit(n) == <<"0", "1", "2", "3", "4", "5", "6", "7", "8", "9">>[n + 1]

\* f"{i:02d}", for i below 100, as its two digits.
Pad2(i) == <<Digit(i \div 10), Digit(i % 10)>>

\* An extension that ignores the media type.
ExtAlwaysJpg(mt) == ".jpg"

\* ext = ".jpg"; if "png" in mt: ".png"; elif "gif" in mt: ".gif"
ExtFor(mt) ==
    IF mt \in {"image/png", "image/apng"} THEN ".png"
    ELSE IF mt \in {"image/gif"} THEN ".gif"
    ELSE ".jpg"

\* The loop body up to download_file, for the i-th item: its candidate URL and
\* its path.  ok is FALSE when a lookup raises KeyError.
GalleryItem(p, i) ==
    LET item == Get(Get(p, "gallery_data"), "items").items[i]
        metas == Get(p, "media_metadata")
        id == Get(item, "media_id")
    IN  IF id.t # "str" \/ ~(id.s \in DOMAIN metas.m)
        THEN [ok |-> FALSE, url |-> None, path |-> <<>>]
        ELSE LET meta == metas.m[id.s]
                 pv == Get(meta, "p")
                 mt == GetOr(GetOr(meta, "s", EmptyDict), "m", Str("")).s
             IN  IF ~Truthy(pv) /\ ~("s" \in DOMAIN meta.m)
                 THEN [ok |-> FALSE, url |-> None, path |-> <<>>]
                 ELSE [ok |-> TRUE,
                       url |-> Unescape(IF "p" \in DOMAIN meta.m /\ Truthy(pv)
                                        THEN pv.items[Len(pv.items)].m.u.s
                                        ELSE meta.m.s.m.u.s),
                       path |-> Pad2(i) \o <<ExtFor(mt)>>]

NewGallery == [kind |-> "gallery", files |-> <<>>]

\* The paths a gallery of the model may write.
GalleryPaths ==
    {Pad2(i) \o <<e>> : i \in 1..MaxItems, e \in {".jpg", ".png", ".gif"}}

GalleryInit ==
    /\ impl = "script"
    /\ max_retries \in {0, 1}
    /\ attempt = 0
    /\ fpc = "idle"
    /\ requests = 0
    /\ status = 0
    /\ hdr = None
    /\ sleeps = 0
    /\ lastSleep = 0
    /\ err = None
    /\ tokenOk = FALSE
    /\ all429 = TRUE
    /\ CommentsIdle
    /\ post \in GalleryPosts
    /\ dpc = "gallery"
    /\ fetchFor = None
    /\ media = NewGallery
    /\ fs = [p \in GalleryPaths |-> "absent"]
    /\ ffmpeg = FALSE
    /\ pick = NoPick
    /\ fallback = Null
    /\ derr = None
    /\ media_kind = "gallery"
    /\ calls = <<>>
    /\ manifest = NoManifest
    /\ ArchiveIdle

\* The i-th turn of the loop up to its request, or the return after the last.
GalleryStep(i, n) ==
    IF i > n
    THEN EndCall("returned", None)
    ELSE IF ~GalleryItem(post, i).ok
         THEN EndCall("raised", "KeyError")
         ELSE BeginFetchAt("gfetch", GalleryItem(post, i).url)

\* Lines 169-173 and the first turn of the loop.
DgStart ==
    /\ dpc = "gallery"
    /\ media' = NewGallery
    /\ IF GetOr(post, "gallery_data", EmptyDict).t # "dict"
       THEN EndCall("raised", "AttributeError")
       ELSE IF ~Truthy(GetOr(post, "media_metadata", EmptyDict))
               \/ ~Truthy(GetOr(GetOr(post, "gallery_data", EmptyDict), "items", EmptyList))
            THEN EndCall("returned", None)
            ELSE GalleryStep(1, Len(Get(Get(post, "gallery_data"), "items").items))
    /\ UNCHANGED <<post, fs, ffmpeg, pick, fallback, media_kind, manifest>>
    /\ UNCHANGED <<impl, max_retries, tokenOk>>
    /\ UNCHANGED <<commentVars, archiveVars>>

\* request_with_backoff raised inside download_file.
DgFetchFailed ==
    /\ dpc = "gfetch" /\ fpc = "raised"
    /\ EndCall("raised", err)
    /\ UNCHANGED <<post, media, fs, ffmpeg, pick, fallback, media_kind, manifest>>
    /\ UNCHANGED <<impl, max_retries, tokenOk>>
    /\ UNCHANGED <<commentVars, archiveVars>>

\* download_file streams the item into its path; then the next turn.
DgDownloaded ==
    /\ dpc = "gfetch" /\ fpc = "returned"
    /\ LET i == Len(media.files) + 1
           path == GalleryItem(post, i).path
       IN \E streamed \in BOOLEAN :
          IF ~streamed
          THEN /\ fs' = [fs EXCEPT ![path] = "partial"]
               /\ media' = media
               /\ EndCall("raised", "RequestException")
          ELSE /\ fs' = [fs EXCEPT ![path] = "whole"]
               /\ media' = [media EXCEPT !.files = Append(@, path)]
               /\ GalleryStep(i + 1, Len(Get(Get(post, "gallery_data"), "items").items))
    /\ UNCHANGED <<post, ffmpeg, pick, fallback, media_kind, manifest>>
    /\ UNCHANGED <<impl, max_retries, tokenOk>>
    /\ UNCHANGED <<commentVars, archiveVars>>

GalleryNext ==
    \/ DgStart
    \/ STransportError \/ SRetryableStatus \/ SClientError \/ SReturn
    \/ DgFetchFailed \/ DgDownloaded

SpecGallery == GalleryInit /\ [][GalleryNext]_vars

----------------------------------------------------------------------------
(* download_image of script.py *)

\* post.get("url_overridden_by_dest") or post.get("url")
LinkUrl(p) ==
    IF Truthy(Get(p, "url_overridden_by_dest"))
    THEN Get(p, "url_overridden_by_dest")
    ELSE Get(p, "url")

\* ext = os.path.splitext(urlparse(url).path)[1] or ".jpg", on the leaves the
\* posts carry, and os.path.join(base_dir, f"image{ext}")
image_path(u) == <<"image", IF u.leaf = "pic.png" THEN ".png" ELSE ".jpg">>

\* Lines 159-165: without a URL the empty media is returned, else the
\* download begins.
DiStart ==
    /\ dpc = "image"
    /\ media' = [kind |-> "image", files |-> <<>>]
    /\ IF ~Truthy(LinkUrl(post))
       THEN EndCall("returned", None)
       ELSE BeginFetchAt("ifetch", "image")
    /\ UNCHANGED <<post, fs, ffmpeg, pick, fallback, media_kind, manifest>>
    /\ UNCHANGED <<impl, max_retries, tokenOk>>
    /\ UNCHANGED <<commentVars, archiveVars>>

\* request_with_backoff raised inside download_file.
DiFetchFailed ==
    /\ dpc = "ifetch" /\ fpc = "raised"
    /\ EndCall("raised", err)
    /\ UNCHANGED <<post, media, fs, ffmpeg, pick, fallback, media_kind, manifest>>
    /\ UNCHANGED <<impl, max_retries, tokenOk>>
    /\ UNCHANGED <<commentVars, archiveVars>>

\* download_file streams the image into its path; line 166.
DiDownloaded ==
    /\ dpc = "ifetch" /\ fpc = "returned"
    /\ \E streamed \in BOOLEAN :
          IF ~streamed
          THEN /\ fs' = [fs EXCEPT ![image_path(LinkUrl(post))] = "partial"]
               /\ media' = media
               /\ EndCall("raised", "RequestException")
          ELSE /\ fs' = [fs EXCEPT ![image_path(LinkUrl(post))] = "whole"]
               /\ media' = [media EXCEPT !.files = Append(@, image_path(LinkUrl(post)))]
               /\ EndCall("returned", None)
    /\ UNCHANGED <<post, ffmpeg, pick, fallback, media_kind, manifest>>
    /\ UNCHANGED <<impl, max_retries, tokenOk>>
    /\ UNCHANGED <<commentVars, archiveVars>>

----------------------------------------------------------------------------
(* archive_one of script.py: fetch_post_and_comments, make_archive_object, *)
(* classify_media_kind and the acquirer of the kind                        *)

\* The t3 child that wraps a post.
T3(p) == Dict([kind |-> Str("t3"), data |-> p])

\* p with the key k set to v.
Extend(p, k, v) ==
    Dict([x \in DOMAIN p.m \cup {k} |-> IF x = k THEN v ELSE p.m[x]])

\* p with the id and the permalink every post of Reddit has.
Base(p) == Extend(Extend(p, "id", Str("p1")), "permalink", Str("/r/x/p1/"))

\* Text posts without any media field; id and permalink absent, set or null.
SelfPosts ==
    {Obj(<<<<"is_self", True>>, <<"selftext", Str("text")>>>>
         \o Field("id", i) \o Field("permalink", pl) \o Field("url", u)) :
        i \in {Absent, Str("p1"), Null},
        pl \in {Absent, Str("/r/x/p1/"), Null},
        u \in {Absent, Url("https", "www.reddit.com", "post", "")}}

\* The posts of the model: text posts, link posts, image posts, galleries
\* and videos.
ArchivePosts ==
    SelfPosts
    \cup
    {Base(Obj(<<<<"is_self", False>>>> \o Field("url", u)
              \o Field("url_overridden_by_dest", o))) :
        u \in {Absent, Url("https", "example.com", "post", "")},
        o \in {Absent, Url("https", "example.org", "post", "")}}
    \cup
    {Base(Obj(<<<<"post_hint", Str("image")>>>> \o Field("url", u))) :
        u \in {Absent, Url("https", "i.redd.it", "post", "pic.png"),
               Url("https", "i.redd.it", "post", "pic")}}
    \cup
    {Base(Obj(<<<<"is_gallery", True>>,
                <<"media_metadata",
                  Obj(<<<<"a", MetaOf("a", "image/png", Absent)>>>> \o Field("b", mb))>>,
                <<"gallery_data", Dict([items |-> List(<<ItemOf("a"), ItemOf("b")>>)])>>>>)) :
        mb \in {Absent, MetaOf("b", "image/gif", EmptyList)}}
    \cup {Base(Obj(<<<<"is_gallery", True>>>>))}
    \cup
    {Base(PostOf(MediaOf(RedditVideo("secure_media", TRUE, TRUE)), Absent, Absent,
                 Url("https", "v.redd.it", "post", ""))),
     Base(PostOf(Absent, Absent, Absent, Url("https", "v.redd.it", "post", ""))),
     Base(PostOf(Absent, Absent, List(<<PostOf(Absent, Absent, Absent, Absent)>>), Absent)),
     Base(Extend(PostOf(MediaOf(RedditVideo("secure_media", TRUE, FALSE)), Absent, Absent,
                        Url("https", "www.reddit.com", "post", "")), "is_self", True))}

\* The bodies the post request is answered with: the two-element array of
\* Reddit (its comment listing empty, a thread, or a partial one), the bodies
\* that are not of that shape, and one that is not JSON.
Responses ==
    {List(<<ListingNode(<<T3(p)>>), ListingNode(<<>>)>>) : p \in ArchivePosts}
    \cup {List(<<ListingNode(<<T3(p)>>), cl>>) :
            p \in {q \in SelfPosts : q = Base(q)}, cl \in {ListingNode(<<>>),
                   ListingNode(<<CommentNode(<<1>>, ListingNode(<<BareComment(<<1, 1>>)>>)),
                                 BareComment(<<2>>)>>),
                   ListingNode(<<NodeOf("t1", Null)>>)}}
    \cup {List(<<ListingNode(<<T3(Base(Obj(<<<<"is_self", True>>>>))),
                               T3(Base(Obj(<<<<"is_self", False>>>>)))>>),
                 ListingNode(<<>>)>>),
          List(<<ListingNode(<<T3(Null)>>), ListingNode(<<>>)>>),
          List(<<ListingNode(<<Null>>), ListingNode(<<>>)>>),
          List(<<ListingNode(<<EmptyDict>>), ListingNode(<<>>)>>),
          List(<<ListingNode(<<>>), ListingNode(<<>>)>>),
          List(<<NodeOf("Listing", Dict([children |-> Null])), ListingNode(<<>>)>>),
          List(<<NodeOf("Listing", Dict([children |-> Str("junk")])), ListingNode(<<>>)>>),
          List(<<NodeOf("Listing", EmptyDict), ListingNode(<<>>)>>),
          List(<<NodeOf("Listing", Null), ListingNode(<<>>)>>),
          List(<<EmptyDict, ListingNode(<<>>)>>),
          List(<<Null, ListingNode(<<>>)>>),
          List(<<ListingNode(<<T3(Base(Obj(<<<<"is_self", True>>>>)))>>)>>),
          EmptyList, EmptyDict, Null, [t |-> "notjson"]}

\* A shape check that lets every body through.
FetchErrIgnored(e) == [err |-> None, post |-> Null, comments_listing |-> Null]

\* raise: fetch_post_and_comments returns nothing.
FetchErr(e) == [err |-> e, post |-> Null, comments_listing |-> Null]

\* Lines 55-63, on the body of the response.  x["k"] raises TypeError on a
\* value that is not a dict and KeyError on a dict without the key.
fetch_post_and_comments(data) ==
    IF data.t = "notjson" THEN FetchErr("JSONDecodeError")
    ELSE IF data.t # "list" THEN FetchErr("RuntimeError")
    ELSE IF Len(data.items) < 2 THEN FetchErr("RuntimeError")
    ELSE LET d0 == data.items[1] IN
    IF d0.t # "dict" THEN FetchErr("TypeError")
    ELSE IF "data" \notin DOMAIN d0.m THEN FetchErr("KeyError")
    ELSE IF d0.m.data.t # "dict" THEN FetchErr("TypeError")
    ELSE IF "children" \notin DOMAIN d0.m.data.m THEN FetchErr("KeyError")
    ELSE LET post_listing == d0.m.data.m.children IN
    IF ~Truthy(post_listing) THEN FetchErr("RuntimeError")
    ELSE IF post_listing.t # "list" THEN FetchErr("TypeError")
    ELSE LET c == post_listing.items[1] IN
    IF c.t # "dict" THEN FetchErr("TypeError")
    ELSE IF "data" \notin DOMAIN c.m THEN FetchErr("KeyError")
    ELSE [err |-> None, post |-> c.m.data, comments_listing |-> data.items[2]]

\* Lines 242-277: the exception make_archive_object raises, or the archive
\* dict by the keys the pipeline decides on (the other keys are post.get
\* copies).  comments is Absent when include_comments is false.
make_archive_object(p, cl, include_comments) ==
    IF p.t # "dict" THEN [err |-> "AttributeError", obj |-> NoArchive]
    ELSE IF GetOr(p, "permalink", Str("")).t # "str"
    THEN [err |-> "TypeError", obj |-> NoArchive]
    ELSE IF include_comments /\ extract_comments(cl).raised
    THEN [err |-> "Exception", obj |-> NoArchive]
    ELSE [err |-> None,
          obj |-> [made |-> TRUE,
                   reddit_id |-> Get(p, "id"),
                   is_self |-> GetOr(p, "is_self", False),
                   url |-> LinkUrl(p),
                   media |-> Null,
                   external_link |-> Null,
                   comments |-> IF include_comments
                                THEN List(extract_comments(cl).collected) ELSE Absent,
                   media_kind |-> None]]

\* A dispatch that returns the archive of a video post without running
\* download_video.
DispatchDropsVideo(k) ==
    CASE k = "image"   -> "image"
      [] k = "gallery" -> "gallery"
      [] OTHER         -> "archived"

\* A dispatch that hands text posts to download_image.
DispatchSelfToImage(k) ==
    CASE k \in {"image", "self"} -> "image"
      [] k = "gallery" -> "gallery"
      [] k = "video"   -> "start"
      [] OTHER         -> "archived"

\* Where archive_one goes after classify_media_kind: into the acquirer of the
\* kind, or to its return.
Dispatch(k) ==
    CASE k = "image"   -> "image"
      [] k = "gallery" -> "gallery"
      [] k = "video"   -> "start"
      [] OTHER         -> "archived"

ArchiveInit ==
    /\ impl = "script"
    /\ max_retries \in {0, 1}
    /\ attempt = 0
    /\ fpc = "idle"
    /\ requests = 0
    /\ status = 0
    /\ hdr = None
    /\ sleeps = 0
    /\ lastSleep = 0
    /\ err = None
    /\ tokenOk = FALSE
    /\ all429 = TRUE
    /\ listing = Null
    /\ max_depth = 2
    /\ max_count \in {1, 500}
    /\ cpc = "idle"
    /\ out = NoOutput
    /\ post = Null
    /\ dpc = "archive_one"
    /\ fetchFor = None
    /\ media = NewMedia
    /\ fs = [p \in Paths \cup GalleryPaths \cup {<<"image", ".png">>, <<"image", ".jpg">>}
                |-> "absent"]
    /\ ffmpeg \in BOOLEAN
    /\ pick = NoPick
    /\ fallback = Null
    /\ derr = None
    /\ media_kind = None
    /\ calls = <<>>
    /\ manifest = NoManifest
    /\ download_media \in BOOLEAN
    /\ archive = NoArchive
    /\ body = Absent
    /\ batch = NoBatch

\* Lines 49-54: a url that is not http(s) raises before any request, else the
\* post is requested.
ArStart ==
    /\ dpc = "archive_one"
    /\ \E is_url \in BOOLEAN :
        IF ~is_url
        THEN EndCall("raised", "ValueError")
        ELSE BeginFetchAt("pfetch", "post")
    /\ UNCHANGED <<post, media, fs, ffmpeg, pick, fallback, media_kind, manifest>>
    /\ UNCHANGED <<impl, max_retries, tokenOk>>
    /\ UNCHANGED <<commentVars, archiveVars>>

\* request_with_backoff raised: the exception leaves archive_one.
ArFetchFailed ==
    /\ dpc = "pfetch" /\ fpc = "raised"
    /\ EndCall("raised", err)
    /\ UNCHANGED <<post, media, fs, ffmpeg, pick, fallback, media_kind, manifest>>
    /\ UNCHANGED <<impl, max_retries, tokenOk>>
    /\ UNCHANGED <<commentVars, archiveVars>>

\* The post request returned: the rest of fetch_post_and_comments, then
\* lines 281-305 up to the acquirer's call or the return.
ArFetched ==
    /\ dpc = "pfetch" /\ fpc = "returned"
    \* main's process_one passes include_comments=True
    /\ \E data \in Responses,
          include_comments \in (IF batch = NoBatch THEN BOOLEAN ELSE {TRUE}) :
        LET f == fetch_post_and_comments(data)
            made == make_archive_object(f.post, f.comments_listing, include_comments)
            k == classify_media_kind(f.post)
            link == IF k = "external" THEN LinkUrl(f.post) ELSE Null
        IN  /\ body' = data
            /\ IF f.err # None
               THEN /\ EndCall("raised", f.err)
                    /\ UNCHANGED <<post, listing, out, media_kind, archive>>
               ELSE /\ post' = f.post
                    /\ listing' = f.comments_listing
                    /\ IF made.err # None
                       THEN /\ EndCall("raised", made.err)
                            /\ UNCHANGED <<out, media_kind, archive>>
                       ELSE /\ out' = IF include_comments
                                      THEN extract_comments(f.comments_listing) ELSE out
                            /\ media_kind' = k
                            /\ IF k = "AttributeError"
                               THEN /\ EndCall("raised", "AttributeError")
                                    /\ archive' = archive
                               ELSE IF ~download_media
                               THEN /\ archive' = [made.obj EXCEPT !.media_kind = k,
                                                                   !.external_link = link]
                                    /\ EndCall("archived", None)
                               \* os.path.join(media_root, post.get('id', 'post'))
                               ELSE IF GetOr(f.post, "id", Str("post")).t # "str"
                               THEN /\ EndCall("raised", "TypeError")
                                    /\ archive' = archive
                               ELSE /\ archive' =
                                         [made.obj EXCEPT
                                             !.media_kind = k,
                                             !.external_link = link,
                                             !.media =
                                                CASE k = "external" ->
                                                       [kind |-> "external", files |-> <<>>]
                                                  [] k = "self" ->
                                                       [kind |-> "self", files |-> <<>>]
                                                  [] OTHER -> @]
                                    /\ EndCall(Dispatch(k), None)
    /\ UNCHANGED <<media, fs, ffmpeg, pick, fallback, manifest>>
    /\ UNCHANGED <<impl, max_retries, tokenOk>>
    /\ UNCHANGED <<max_depth, max_count, cpc, download_media, batch>>

\* The acquirer returned: archive["media"] is its result, and archive_one
\* returns the archive.
ArAcquired ==
    /\ dpc = "returned" /\ archive.made
    /\ archive' = [archive EXCEPT !.media = media]
    /\ EndCall("archived", None)
    /\ UNCHANGED <<post, media, fs, ffmpeg, pick, fallback, media_kind, manifest>>
    /\ UNCHANGED <<impl, max_retries, tokenOk, download_media, body, batch>>
    /\ UNCHANGED commentVars

ArchiveNext ==
    \/ ArStart
    \/ STransportError \/ SRetryableStatus \/ SClientError \/ SReturn
    \/ ArFetchFailed \/ ArFetched \/ ArAcquired
    \/ DiStart \/ DiFetchFailed \/ DiDownloaded
    \/ DgStart \/ DgFetchFailed \/ DgDownloaded
    \/ DvStart \/ DvFetchFailed \/ DvManifest \/ DvDownloaded \/ DvMux

SpecArchive == ArchiveInit /\ [][ArchiveNext]_vars
----------------------------------------------------------------------------
(* The batch drivers: the CSV loop of script.py's main, and process_all of  *)
(* jsonDownloader.py over process_one                                        *)

\* Lines 307-356 of jsonDownloader.py: the exception make_archive_object
\* raises, or the archive dict by the keys the pipeline decides on.
json_make_archive_object(p, cl, include_comments) ==
    IF p.t # "dict" THEN [err |-> "AttributeError", obj |-> NoArchive]
    ELSE IF Truthy(Get(p, "permalink")) /\ Get(p, "permalink").t # "str"
    THEN [err |-> "TypeError", obj |-> NoArchive]
    ELSE IF include_comments /\ json_extract_comments(cl).raised
    THEN [err |-> "Exception", obj |-> NoArchive]
    ELSE LET mk == json_classify_media_kind(p) IN
         [err |-> None,
          obj |-> [made |-> TRUE,
                   reddit_id |-> Get(p, "id"),
                   is_self |-> GetOr(p, "is_self", False),
                   url |-> LinkUrl(p),
                   media |-> Null,
                   external_link |-> IF mk = "external" THEN LinkUrl(p) ELSE Null,
                   comments |-> IF include_comments
                                THEN List(json_extract_comments(cl).collected)
                                ELSE Absent,
                   media_kind |-> mk]]

\* A driver over 1..MaxLinks links.  batch_size is positive; what the links
\* are answered with is chosen when they are fetched.
BatchInit ==
    /\ impl \in {"script", "json"}
    /\ max_retries = 1
    /\ attempt = 0
    /\ fpc = "idle"
    /\ requests = 0
    /\ status = 0
    /\ hdr = None
    /\ sleeps = 0
    /\ lastSleep = 0
    /\ err = None
    /\ tokenOk = FALSE
    /\ all429 = TRUE
    /\ listing = Null
    /\ max_depth = 2
    /\ max_count = 500
    /\ cpc = "idle"
    /\ out = NoOutput
    /\ post = Null
    /\ dpc = IF impl = "script" THEN "archive_one" ELSE "process_one"
    /\ fetchFor = None
    /\ media = NewMedia
    /\ fs = [p \in Paths \cup GalleryPaths \cup {<<"image", ".png">>, <<"image", ".jpg">>}
                |-> "absent"]
    /\ ffmpeg \in BOOLEAN
    /\ pick = NoPick
    /\ fallback = Null
    /\ derr = None
    /\ media_kind = None
    /\ calls = <<>>
    /\ manifest = NoManifest
    /\ download_media \in (IF impl = "script" THEN BOOLEAN ELSE {FALSE})
    /\ archive = NoArchive
    /\ body = Absent
    /\ \E n \in 1..MaxLinks, sz \in 1..MaxLinks :
        batch = [NoBatch EXCEPT !.total = n, !.size = sz,
                                !.i = IF impl = "script" THEN 0 ELSE 1,
                                !.j = IF impl = "script" THEN 1 ELSE 0]

\* The driver goes on with batch record b: the next link starts with fresh
\* locals (and its own media directory), or the loop has ended.
NextLink(b) ==
    /\ batch' = b
    /\ dpc' = IF b.done THEN "idle"
              ELSE IF impl = "script" THEN "archive_one" ELSE "process_one"
    /\ attempt' = 0 /\ fpc' = "idle" /\ requests' = 0 /\ status' = 0
    /\ hdr' = None /\ sleeps' = 0 /\ lastSleep' = 0 /\ err' = None
    /\ all429' = TRUE
    /\ listing' = Null /\ out' = NoOutput
    /\ post' = Null /\ fetchFor' = None /\ media' = NewMedia
    /\ fs' = [p \in DOMAIN fs |-> "absent"]
    /\ pick' = NoPick /\ fallback' = Null /\ derr' = None /\ media_kind' = None
    /\ calls' = <<>> /\ manifest' = NoManifest /\ archive' = NoArchive
    /\ body' = Absent
    /\ UNCHANGED <<impl, max_retries, tokenOk, max_depth, max_count, cpc, ffmpeg,
                   download_media>>

\* script.py lines 351-365 and 375-385: archive_one returned or raised;
\* process_one writes the JSON file or prints the failure, and the loop goes
\* to the next link of the batch, or to the next batch.
CsvLoopStep ==
    /\ impl = "script" /\ batch.total > 0 /\ dpc \in {"archived", "raised"}
    /\ \E wrote \in BOOLEAN :
        LET s    == IF dpc = "archived" /\ wrote THEN "saved" ELSE "failed"
            more == batch.j < Min(batch.size, batch.total - batch.i)
            i2   == IF more THEN batch.i ELSE batch.i + batch.size
        IN  NextLink([batch EXCEPT
                        !.log = Append(@, [link |-> batch.i + batch.j, status |-> s]),
                        !.j = IF more THEN @ + 1 ELSE 1,
                        !.i = i2,
                        !.done = ~more /\ i2 >= batch.total])

\* jsonDownloader.py lines 212-216: process_one calls fetch_post_and_comments.
JpStart ==
    /\ impl = "json" /\ dpc = "process_one"
    /\ \E is_url \in BOOLEAN :
        IF ~is_url
        THEN EndCall("failed", "ValueError")
        ELSE /\ dpc' = "jfetch"
             /\ fetchFor' = "post"
             /\ fpc' \in OAuthEntry(tokenOk)
             /\ attempt' = 0 /\ requests' = 0 /\ status' = 0 /\ hdr' = None
             /\ sleeps' = 0 /\ lastSleep' = 0 /\ err' = None /\ all429' = TRUE
             /\ derr' = derr
             /\ calls' = Append(calls, "post")
    /\ UNCHANGED <<post, media, fs, ffmpeg, pick, fallback, media_kind, manifest>>
    /\ UNCHANGED <<impl, max_retries, tokenOk>>
    /\ UNCHANGED <<commentVars, archiveVars>>

\* jsonDownloader.py lines 217-406: request_with_backoff is over; the rest of
\* fetch_post_and_comments and of process_one.  The JSON file of the id may be
\* there already, from an earlier run or an earlier link.
JpFetched ==
    /\ impl = "json" /\ dpc = "jfetch" /\ fpc \in {"returned", "raised"}
    /\ LET Return(st, e) == dpc' = st /\ derr' = e
           Failed(e) == /\ Return("failed", e)
                        /\ UNCHANGED <<out, media_kind, archive>>
       IN  IF fpc = "raised"
           THEN Failed(err) /\ UNCHANGED <<post, listing, body>>
           ELSE \E data \in Responses :
                LET f == fetch_post_and_comments(data)
                    made == json_make_archive_object(f.post, f.comments_listing, TRUE)
                IN  /\ body' = data
                    /\ IF f.err # None
                       THEN Failed(f.err) /\ UNCHANGED <<post, listing>>
                       ELSE /\ post' = f.post
                            /\ listing' = f.comments_listing
                            /\ IF f.post.t # "dict"
                               THEN Failed("AttributeError")
                               ELSE \/ /\ Return("skipped", None)
                                       /\ UNCHANGED <<out, media_kind, archive>>
                                    \/ IF made.err # None
                                       THEN Failed(made.err)
                                       ELSE /\ out' = json_extract_comments(f.comments_listing)
                                            /\ media_kind' = made.obj.media_kind
                                            /\ archive' = made.obj
                                            /\ \/ Return("success", None)
                                               \/ Return("failed", "OSError")
    /\ fpc' = "idle" /\ attempt' = 0 /\ requests' = 0 /\ status' = 0
    /\ hdr' = None /\ sleeps' = 0 /\ lastSleep' = 0 /\ err' = None
    /\ all429' = TRUE
    /\ UNCHANGED <<fetchFor, calls, media, fs, ffmpeg, pick, fallback, manifest>>
    /\ UNCHANGED <<impl, max_retries, tokenOk>>
    /\ UNCHANGED <<max_depth, max_count, cpc, download_media, batch>>

\* jsonDownloader.py lines 437-453: process_one returned info; process_all
\* counts its status, logs it and takes the next link.
ProcessAllStep ==
    /\ impl = "json" /\ batch.total > 0
    /\ dpc \in {"success", "skipped", "failed"}
    /\ NextLink([batch EXCEPT
                    !.results[dpc] = @ + 1,
                    !.log = Append(@, [link |-> batch.i, status |-> dpc]),
                    !.i = @ + 1,
                    !.done = batch.i >= batch.total])

BatchNext ==
    \/ ArchiveNext
    \/ CsvLoopStep
    \/ JpStart \/ JpFetched \/ ProcessAllStep
    \/ JTokenFetch \/ JTransportError \/ JUnauthorized \/ JRateLimited \/ JResponse

SpecBatch == BatchInit /\ [][BatchNext]_vars

\* The drivers run in one thread that nothing suspends: a driver that can
\* take a step takes one.
SpecBatchFair == SpecBatch /\ WF_vars(BatchNext)


----------------------------------------------------------------------------
(* Properties of request_with_backoff *)

Running == fpc \in {"request", "token", "token401", "request401"}

\* A 4xx status other than 429.
PlainClientStatus(s) == 400 <= s /\ s < 500 /\ s # 429

\* C2: one call of script.py's request_with_backoff makes at most
\* max_retries + 1 requests, whatever mix of transport failures and 429/5xx
\* answers it meets; a call that has used the whole budget and whose last
\* request failed has raised (the transport error, or the HTTP error of the
\* last response); no call returns a 429 or 5xx response.
C2_RequestBudget ==
    impl = "script" =>
        /\ requests <= max_retries + 1
        /\ fpc = "returned" => (status # 429 /\ ~(500 <= status /\ status < 600))
        /\ (requests = max_retries + 1 /\ status = 0)
              => (fpc = "raised" /\ err = "RequestException")
        /\ (requests = max_retries + 1 /\ (status = 429 \/ status >= 500))
              => (fpc = "raised" /\ err = "HTTPError")

C2_Witness ==
    /\ impl = "script" /\ max_retries = MaxRetries
    /\ requests = max_retries + 1 /\ sleeps = max_retries
    /\ fpc = "raised" /\ err = "HTTPError" /\ status = 503

\* C3 as claimed: once a request is answered with a 4xx status other than 429
\* the call has failed with the HTTP error, and no request and no sleep follow.
C3_ClientErrorFailsAtOnce ==
    /\ [](PlainClientStatus(status) => (fpc = "raised" /\ err = "HTTPError"))
    /\ [][PlainClientStatus(status) =>
            (requests' = requests /\ sleeps' = sleeps)]_vars

\* oauth_request has met the first 401 of a round and is sending the request
\* once more with a new token.
Resending401 ==
    impl = "json" /\ status = 401 /\ fpc \in {"token401", "request401"}

\* C3 amended: the same, except for the first 401 of a round of
\* jsonDownloader's oauth_request, which is followed by one more request.
C3_ClientErrorFailsAtOnceBut401 ==
    /\ []((PlainClientStatus(status) /\ ~Resending401)
            => (fpc = "raised" /\ err = "HTTPError"))
    /\ [][(PlainClientStatus(status) /\ ~Resending401) =>
            (requests' = requests /\ sleeps' = sleeps)]_vars

C3_Witness ==
    /\ impl = "json" /\ status = 401 /\ requests = 2
    /\ fpc = "raised" /\ err = "HTTPError"
    /\ attempt < max_retries /\ sleeps = 0

\* The latest response was 429 or 5xx with a Retry-After header and the call
\* slept and goes on to another attempt.
RetriedOnHeader ==
    Running /\ hdr # None /\ (status = 429 \/ (500 <= status /\ status < 600))

\* C4 as claimed: in both files the delay is then the header value in
\* seconds, and 10 seconds when the header is no number.
C4_RetryAfterExact ==
    RetriedOnHeader =>
        lastSleep = (IF ParseFloat(hdr).ok THEN ParseFloat(hdr).val ELSE 100)

\* C4 amended: that holds of script.py. In jsonDownloader.py a 5xx response
\* is followed by the header value plus the jitter, or by the exponential
\* value plus the jitter when the header is no number; a 429 response is
\* handled by oauth_request, which sleeps max(2, header value), 2 seconds
\* when the header is no number.
C4_RetryAfterPerFile ==
    RetriedOnHeader =>
        LET p == ParseFloat(hdr) IN
        CASE impl = "script" ->
                lastSleep = (IF p.ok THEN p.val ELSE 100)
          [] impl = "json" /\ status = 429 ->
                lastSleep = (IF p.ok /\ p.val > 20 THEN p.val ELSE 20)
          [] OTHER ->
                /\ attempt >= 1
                /\ lastSleep - (IF p.ok THEN p.val
                                ELSE Min(600, 10 * 2^(attempt - 1))) \in 0..JitterMax

C4_Witness ==
    /\ impl = "script" /\ fpc = "request" /\ status = 429
    /\ hdr = "120" /\ lastSleep = 1200 /\ attempt = 2

\* C5 as claimed: while every request is answered with 429, a call of
\* jsonDownloader's request_with_backoff makes at most max_retries + 1
\* requests.
C5_BoundedUnder429 ==
    (impl = "json" /\ all429) => requests <= max_retries + 1

\* The base delay of the claim before the k-th retry, in tenths of a second.
BaseDelay(k) == IF k <= 6 THEN 10 * 2^(k - 1) ELSE 600

\* C26: in script.py, a retry that no Retry-After header delays is the k-th
\* retry of the call when attempt becomes k, and its sleep is the base delay
\* 1, 2, 4, 8, 16, 32, 60, 60, ... seconds for k = 1, 2, ... plus a jitter of
\* 0 to 0.5 seconds.
C26_BaseDelays ==
    [][(impl = "script" /\ sleeps' = sleeps + 1 /\ hdr' = None) =>
        LET k == sleeps'
        IN  /\ attempt' = k /\ attempt = k - 1
            /\ lastSleep' \in BaseDelay(k)..(BaseDelay(k) + JitterMax)
            /\ k > 1 => BaseDelay(k - 1) <= BaseDelay(k)
            /\ BaseDelay(k) <= 600]_vars

\* The eighth retry of a call: the base delay has been 60 seconds since the
\* seventh.
C26_Witness ==
    /\ impl = "script" /\ fpc = "request" /\ hdr = None
    /\ sleeps = 8 /\ attempt = 8 /\ lastSleep \in 600..(600 + JitterMax)

----------------------------------------------------------------------------
(* Properties of extract_comments *)

\* The children of the root listing.
Top == listing.m.data.m.children.items

IsComment(n) == n.t = "dict" /\ Get(n, "kind") = Str("t1")

\* The children of a comment's replies listing (none for the other shapes).
ReplyNodes(n) ==
    LET r == Get(n.m.data, "replies") IN
    IF r.t = "dict" THEN r.m.data.m.children.items ELSE <<>>

Last(p) == p[Len(p)]
Parent(p) == SubSeq(p, 1, Len(p) - 1)

RECURSIVE AllItems(_)
\* The items of an output sequence at every nesting level.
AllItems(items) ==
    IF items = <<>> THEN <<>>
    ELSE LET x == Head(items) IN
         <<x>> \o (IF x.m.replies.t = "list" THEN AllItems(x.m.replies.items) ELSE <<>>)
              \o AllItems(Tail(items))

RECURSIVE InDepth(_, _)
\* The number of comments of the source that lie within max_depth.
InDepth(children, depth) ==
    IF children = <<>> \/ depth > max_depth THEN 0
    ELSE (IF IsComment(Head(children))
          THEN 1 + InDepth(ReplyNodes(Head(children)), depth + 1) ELSE 0)
         + InDepth(Tail(children), depth)

Range(f) == {f[i] : i \in DOMAIN f}

\* Every top-level node is a comment without replies.
FlatListing ==
    \A i \in 1..Len(Top) : IsComment(Top[i]) /\ ReplyNodes(Top[i]) = <<>>

\* C7: on a listing of N top-level comments without replies, with
\* max_depth >= 1 and a count max_count >= 0, extract_comments (of either
\* file) returns min(N, max_count) nodes, the first ones in listing order, and
\* converts no node once the budget is at zero.
C7_FlatListingTruncated ==
    (cpc = "done" /\ FlatListing /\ max_depth >= 1 /\ max_count >= 0) =>
        LET k == Min(Len(Top), max_count) IN
        /\ ~out.raised
        /\ Len(out.collected) = k
        /\ \A i \in 1..k : out.collected[i] = Dict([id |-> <<i>>, replies |-> EmptyList])
        /\ out.log = [i \in 1..k |-> <<i>>]
        /\ out.rem = max_count - k

C7_Witness ==
    /\ cpc = "done" /\ FlatListing /\ Len(Top) = 3 /\ max_count = 2 /\ max_depth >= 1
    /\ Len(out.collected) = 2 /\ out.rem = 0

\* C8: depth is 1 for the top-level comments and one more per reply level
\* (the length of a node's path); no node deeper than max_depth is in the
\* output or converted, the budget goes down by exactly one per node
\* converted, and with a budget that covers the comments within max_depth
\* every one of them is converted.
C8_DepthPruning ==
    cpc = "done" =>
        /\ \A x \in Range(AllItems(out.collected)) : Len(x.m.id) <= max_depth
        /\ \A p \in Range(out.log) : Len(p) <= max_depth
        /\ out.rem = max_count - Len(out.log)
        /\ max_count >= InDepth(Top, 1) => Len(out.log) = InDepth(Top, 1)
        /\ impl = "script" => Len(AllItems(out.collected)) = Len(out.log)

C8_Witness ==
    /\ cpc = "done" /\ impl = "script" /\ max_depth = 1 /\ max_count = 2
    /\ Len(Top) = 2 /\ Len(ReplyNodes(Top[1])) = 1 /\ IsComment(ReplyNodes(Top[1])[1])
    /\ IsComment(Top[2])
    /\ out.log = <<(<<1>>), (<<2>>)>> /\ out.rem = 0
    /\ Len(out.collected) = 2

\* C9: every node of the output, at every nesting level, has a replies field
\* that is a list, whatever the source's replies value is.
C9_RepliesIsList ==
    cpc = "done" =>
        \A x \in Range(AllItems(out.collected)) :
            "replies" \in DOMAIN x.m /\ x.m.replies.t = "list"

C9_Witness ==
    /\ cpc = "done" /\ Len(Top) = 3
    /\ Top[1] = CommentNode(<<1>>, Null)
    /\ Top[2] = CommentNode(<<2>>, Str(""))
    /\ Top[3] = BareComment(<<3>>)
    /\ Len(out.collected) = 3
    /\ \A i \in 1..3 : out.collected[i].m.replies = EmptyList

C11_NeverFailsOnPayload ==
    cpc = "done" => ~out.raised

RECURSIVE PreOrder(_, _)
\* The ids of the comments of the source that lie within max_depth, in
\* depth-first pre-order: a comment, then its replies, then its next sibling.
PreOrder(children, depth) ==
    IF children = <<>> \/ depth > max_depth THEN <<>>
    ELSE (IF IsComment(Head(children))
          THEN <<Head(children).m.data.m.id>>
               \o PreOrder(ReplyNodes(Head(children)), depth + 1)
          ELSE <<>>)
         \o PreOrder(Tail(children), depth)

\* C27: extract_comments of script.py converts exactly the first
\* min(max_count, K) of the K comments within max_depth, taken in depth-first
\* pre-order; these are the nodes of the output, over all nesting levels, so
\* their number never exceeds max_count; and max_count <= 0 or
\* max_depth <= 0 gives an empty sequence.
C27_SharedBudget ==
    (cpc = "done" /\ impl = "script") =>
        LET pre == PreOrder(Top, 1)
            n   == Min(Max(max_count, 0), Len(pre))
            all == AllItems(out.collected)
        IN  /\ out.log = SubSeq(pre, 1, n)
            /\ [i \in 1..Len(all) |-> all[i].m.id] = SubSeq(pre, 1, n)
            /\ Len(all) <= Max(max_count, 0)
            /\ (max_count <= 0 \/ max_depth <= 0) => out.collected = <<>>

\* The budget of 3 runs out inside the first branch: the first comment, its
\* reply and that reply's reply are converted, the second top-level comment
\* is not.
C27_Witness ==
    /\ cpc = "done" /\ impl = "script" /\ max_count = 3 /\ max_depth >= 3
    /\ PreOrder(Top, 1) = <<(<<1>>), (<<1, 1>>), (<<1, 1, 1>>), (<<2>>)>>
    /\ out.log = <<(<<1>>), (<<1, 1>>), (<<1, 1, 1>>)>>
    /\ Len(out.collected) = 1

\* No comment is twice in the output, and the top-level sequence holds only
\* children of the root listing.
EachCommentOnce ==
    LET all == AllItems(out.collected) IN
    /\ \A i, j \in 1..Len(all) : i # j => all[i].m.id # all[j].m.id
    /\ \A x \in Range(out.collected) : Len(x.m.id) = 1

\* C28: in the structure extract_comments (of either file) returns, every
\* comment appears at most once: the top-level sequence holds only children
\* of the root listing, and a reply is only in the replies of its parent.
C28_EachCommentOnce ==
    cpc = "done" => EachCommentOnce

\* What holds of script.py's extract_comments.
ScriptEachCommentOnce ==
    (cpc = "done" /\ impl = "script") => EachCommentOnce

----------------------------------------------------------------------------
(* Properties of download_video *)

\* C1: a call of download_video that returns has set media.merged; a call
\* that cannot set it raises instead of returning a partial result.
C1_MergedOrRaises ==
    dpc = "returned" => media.merged # NoPath

\* C6: when the https request for the manifest is answered 403, the call
\* does not fail on that response: the manifest is requested once more over
\* plain http.
C6_PlainHttpAfter403 ==
    (fetchFor = "manifest" /\ status = 403) => dpc # "raised"

\* The muxer was run and succeeded, on a video and an audio stream both picked
\* from the manifest, and download_video returned.
MuxedBoth ==
    /\ dpc = "returned" /\ "mux" \in Range(calls)
    /\ pick.v_url # None /\ pick.a_url # None

\* C15 as stated: then merged is the muxed output and neither intermediate
\* file is in the directory.
C15_IntermediatesGone ==
    MuxedBoth =>
        /\ media.merged = out_path /\ fs[out_path] = "whole"
        /\ fs[v_path] = "absent" /\ fs[a_path] = "absent"

\* C15, amended: then merged is the muxed output; both intermediates are gone
\* when no removal failed; a failing removal is swallowed, and leaves the
\* audio file in place (and the video file too when it is the first removal
\* that failed, the second not being tried).
C15_IntermediatesGoneUnlessRemoveFails ==
    MuxedBoth =>
        /\ media.merged = out_path /\ fs[out_path] = "whole" /\ derr = None
        /\ "remove failed" \notin Range(calls) =>
              fs[v_path] = "absent" /\ fs[a_path] = "absent"
        /\ "remove failed" \in Range(calls) =>
              /\ fs[a_path] = "whole"
              /\ fs[v_path] = (IF "remove" \in Range(calls) THEN "absent" ELSE "whole")

\* A run in which both removals succeeded.
C15_Witness ==
    /\ MuxedBoth /\ media.merged = out_path
    /\ calls = <<"manifest", "video", "audio", "probe", "mux", "remove", "remove">>
    /\ fs[v_path] = "absent" /\ fs[a_path] = "absent"

\* The position of the first call named c, 0 when there is none.
FirstCall(c) ==
    IF c \in Range(calls) THEN CHOOSE i \in 1..Len(calls) :
                                   calls[i] = c /\ \A j \in 1..(i - 1) : calls[j] # c
    ELSE 0

\* C16: whenever the muxer has been run, a video and an audio representation
\* were both picked from the manifest and both were downloaded before it.
C16_MuxOnlyWithBoth ==
    "mux" \in Range(calls) =>
        /\ pick.v_url # None /\ pick.a_url # None
        /\ 0 < FirstCall("video") /\ FirstCall("video") < FirstCall("mux")
        /\ 0 < FirstCall("audio") /\ FirstCall("audio") < FirstCall("mux")

\* The exceptions of a request or of a download.
TransferErrors == {"RequestException", "HTTPError", "ValueError"}

\* C17: with an audio stream picked and no ffmpeg, download_video never
\* returns, and fails with RuntimeError once both downloads are through; with
\* a video stream only, ffmpeg is neither probed nor run whether it is there
\* or not, nothing but a failing transfer ends the call with an error, and on
\* return merged is the path the video file was renamed to.
C17_MuxerMissing ==
    /\ (pick.a_url # None /\ ~ffmpeg) =>
          /\ dpc # "returned" /\ "mux" \notin Range(calls)
          /\ "probe" \in Range(calls) => dpc = "raised" /\ derr = "RuntimeError"
    /\ (pick.v_url # None /\ pick.a_url = None) =>
          /\ "probe" \notin Range(calls) /\ "mux" \notin Range(calls)
          /\ dpc = "raised" => derr \in TransferErrors
          /\ dpc = "returned" =>
                /\ media.merged = out_path /\ fs[out_path] = "whole"
                /\ fs[v_path] = "absent"

\* A video-only manifest on a host without ffmpeg: the call returns.
C17_Witness ==
    /\ ~ffmpeg /\ pick.v_url # None /\ pick.a_url = None
    /\ dpc = "returned" /\ media.merged = out_path
    /\ calls = <<"manifest", "video">>

\* C18 as stated: the fallback_url is downloaded only when no manifest URL
\* was resolved, and never after the manifest was fetched.
C18_FallbackOnlyWithoutManifest ==
    "fallback" \in Range(calls) =>
        ~Truthy(DashUrl(post)) /\ "manifest" \notin Range(calls)

\* C18, amended: the fallback_url is downloaded only when the payload has
\* one and either no manifest URL was resolved or the manifest, fetched and
\* parsed, gave neither a video nor an audio URL; once a stream was picked
\* the fallback_url is never downloaded.
C18_FallbackWithoutStreams ==
    "fallback" \in Range(calls) =>
        /\ Truthy(fallback) /\ pick = NoPick
        /\ "video" \notin Range(calls) /\ "audio" \notin Range(calls)
        /\ \/ ~Truthy(DashUrl(post)) /\ calls = <<"fallback">>
           \/ Truthy(DashUrl(post)) /\ calls = <<"manifest", "fallback">>
                 /\ manifest # NoManifest /\ manifest.wellformed

\* The fallback MP4 of a payload without dash_url is the deliverable.
C18_Witness ==
    /\ dpc = "returned" /\ calls = <<"fallback">>
    /\ ~Truthy(DashUrl(post)) /\ Truthy(fallback)
    /\ media.merged = out_path /\ fs[out_path] = "whole"

\* The places of a post where a reddit_video payload may sit, in the order
\* of the claim: secure_media, media, then the same two of every crosspost
\* parent in list order.
Candidates(p) ==
    LET ps == IF Truthy(Get(p, "crosspost_parent_list"))
              THEN Get(p, "crosspost_parent_list").items ELSE <<>>
    IN  <<Get(p, "secure_media"), Get(p, "media")>>
        \o [n \in 1..(2 * Len(ps)) |->
                Get(ps[(n + 1) \div 2], IF n % 2 = 1 THEN "secure_media" ELSE "media")]

\* The payload of the first candidate that has one, or Null.
FirstHit(p) ==
    LET cs == Candidates(p)
        hits == {n \in 1..Len(cs) : Truthy(cs[n]) /\ Truthy(Get(cs[n], "reddit_video"))}
    IN  IF hits = {} THEN Null
        ELSE Get(cs[CHOOSE n \in hits : \A k \in hits : n <= k], "reddit_video")

ManifestRequested == calls # <<>> /\ calls[1] = "manifest"

\* C25: once download_video has looked for the payload, the payload it works
\* with (seen by its fallback_url and by whether a manifest is requested) is
\* that of the first candidate that has one; a manifest is requested exactly
\* when that payload has a dash_url or the post URL is on the native video
\* host, so without any payload only for a native URL.
C25_FirstHitWins ==
    (dpc # "start" /\ ~(dpc = "raised" /\ calls = <<>>)) =>
        /\ fallback = RvGet(FirstHit(post), "fallback_url")
        /\ ManifestRequested <=>
              (Truthy(RvGet(FirstHit(post), "dash_url")) \/ IsNative(PostUrl(post)))
        /\ (FirstHit(post) = Null /\ ManifestRequested) => IsNative(PostUrl(post))

\* The payload of the second crosspost parent is used: the post itself and
\* the first parent have none, and the post URL is not native.
C25_Witness ==
    /\ dpc = "fetch" /\ ManifestRequested
    /\ ~Truthy(Get(post, "secure_media")) /\ ~Truthy(Get(post, "media"))
    /\ Truthy(Get(post, "crosspost_parent_list"))
    /\ Len(Get(post, "crosspost_parent_list").items) = 2
    /\ FirstHit(post) # Null
    /\ ~IsNative(PostUrl(post))

----------------------------------------------------------------------------
(* Properties of classify_media_kind *)

Has(p, k) == k \in DOMAIN p.m

\* The flag k of the post is true.
Flag(p, k) == Has(p, k) /\ p.m[k] = True

\* The post's URL: the overriding one when the post has it.
EffectiveUrl(p) ==
    IF Has(p, "url_overridden_by_dest") /\ p.m.url_overridden_by_dest.t = "url"
    THEN p.m.url_overridden_by_dest
    ELSE IF Has(p, "url") THEN p.m.url ELSE Null

\* The URL is on the native video host (host names do not depend on case).
OnVideoHost(p) ==
    EffectiveUrl(p).t = "url" /\ EffectiveUrl(p).host \in {"v.redd.it", "V.REDD.IT"}

\* A reddit_video payload lies under the field k.
Payload(p, k) ==
    /\ Has(p, k) /\ p.m[k].t = "dict"
    /\ Has(p.m[k], "reddit_video") /\ p.m[k].m.reddit_video.t = "dict"

Crossposted(p) ==
    /\ Has(p, "crosspost_parent_list")
    /\ p.m.crosspost_parent_list.t = "list"
    /\ Len(p.m.crosspost_parent_list.items) > 0

ImagePost(p) ==
    \/ Has(p, "post_hint") /\ p.m.post_hint = Str("image")
    \/ Has(p, "domain")
         /\ p.m.domain \in {Str("i.redd.it"), Str("I.REDD.IT"), Str("i.reddituploads.com")}

VideoRule(p) ==
    OnVideoHost(p) \/ Payload(p, "secure_media") \/ Payload(p, "media") \/ Crossposted(p)

Kinds == {"gallery", "video", "image", "self", "external"}

\* C12: the kind is that of the first rule that matches, in the order
\* gallery, video, image, self, external, in either file.
C12_FirstMatchWins ==
    dpc \in {"classified", "again"} =>
        /\ Flag(post, "is_gallery") => media_kind = "gallery"
        /\ (~Flag(post, "is_gallery") /\ VideoRule(post)) => media_kind = "video"
        /\ (~Flag(post, "is_gallery") /\ ~VideoRule(post) /\ ImagePost(post))
              => media_kind = "image"
        /\ (~Flag(post, "is_gallery") /\ ~VideoRule(post) /\ ~ImagePost(post)
              /\ Flag(post, "is_self")) => media_kind = "self"
        /\ (~Flag(post, "is_gallery") /\ ~VideoRule(post) /\ ~ImagePost(post)
              /\ ~Flag(post, "is_self")) => media_kind = "external"

\* A crosspost with an image hint and the self flag, and no other reason to
\* be a video.
C12_Witness ==
    /\ dpc = "classified"
    /\ ~Flag(post, "is_gallery") /\ Crossposted(post)
    /\ ~OnVideoHost(post) /\ ~Payload(post, "secure_media") /\ ~Payload(post, "media")
    /\ Has(post, "post_hint") /\ post.m.post_hint = Str("image")
    /\ Flag(post, "is_self")
    /\ media_kind = "video"

----------------------------------------------------------------------------
(* Properties of pick_best_from_mpd *)

RECURSIVE RepsInOrder(_, _)
\* The representations of the manifest in document order, each with the
\* mimeType of its adaptation set.
RepsInOrder(asets, i) ==
    IF i > Len(asets) THEN <<>>
    ELSE [j \in 1..Len(asets[i].reps) |->
            [mime |-> asets[i].mimeType,
             bandwidth |-> asets[i].reps[j].bandwidth,
             base |-> asets[i].reps[j].base]]
         \o RepsInOrder(asets, i + 1)

\* The representations of one category: mimes is the set of its mimeTypes.
OfCategory(mimes) ==
    SelectSeq(RepsInOrder(manifest.asets, 1), LAMBDA r : r.mime \in mimes)

\* Those of them that carry a BaseURL: the ones a URL can be returned for.
WithBaseURL(mimes) == SelectSeq(OfCategory(mimes), LAMBDA r : r.base # None)

\* The first of the representations with the highest bandwidth.
FirstHighest(reps) ==
    CHOOSE k \in 1..Len(reps) :
        /\ \A j \in 1..Len(reps) : reps[j].bandwidth <= reps[k].bandwidth
        /\ \A j \in 1..(k - 1) : reps[j].bandwidth < reps[k].bandwidth

\* The URL pick_best_from_mpd gives for the representation r.
UrlOf(r) == Resolve(manifest.base_url, r.base)

VideoMimes == {"video/mp4"}
AudioMimes == {"audio/mp4"}

\* C14: for each category that has a representation with a BaseURL, the URL
\* returned is that of the representation with the highest declared
\* bandwidth among them, the first in document order when several share it.
C14_HighestBandwidth ==
    dpc = "picked" =>
        /\ WithBaseURL(VideoMimes) # <<>> =>
              pick.v_url = UrlOf(WithBaseURL(VideoMimes)[FirstHighest(WithBaseURL(VideoMimes))])
        /\ WithBaseURL(AudioMimes) # <<>> =>
              pick.a_url = UrlOf(WithBaseURL(AudioMimes)[FirstHighest(WithBaseURL(AudioMimes))])

----------------------------------------------------------------------------
(* Properties of download_gallery *)

\* The gallery's declared items and the media id of the k-th.
Items == post.m.gallery_data.m.items.items
IdOf(k) == Items[k].m.media_id.s

\* The post has its two gallery fields and every item has an entry.
EveryItemResolves ==
    /\ Has(post, "gallery_data") /\ post.m.gallery_data.t = "dict"
    /\ Has(post, "media_metadata") /\ post.m.media_metadata.t = "dict"
    /\ \A k \in 1..Len(Items) : IdOf(k) \in DOMAIN post.m.media_metadata.m

\* The extension that goes with the media type declared for the k-th item.
DeclaredExt(k) ==
    LET mime == post.m.media_metadata.m[IdOf(k)].m.s.m.m.s IN
    CASE mime = "image/png" -> ".png"
      [] mime = "image/gif" -> ".gif"
      [] OTHER -> ".jpg"

\* The URLs the k-th item can be downloaded from.
UrlsOf(k) ==
    {SourceUrl(IdOf(k)),
     IF IdOf(k) = "a" THEN "https://preview.redd.it/a?width=640&s=1"
     ELSE "https://preview.redd.it/b?width=640&s=1"}

\* C19: when every item resolves and download_gallery returns, files has one
\* path per item; the k-th is written whole by the k-th download, which is a
\* download of the k-th item, and is named by the two digits of k followed
\* by the extension of the k-th item's media type.
C19_GalleryFilesInOrder ==
    (dpc = "returned" /\ EveryItemResolves) =>
        /\ media.kind = "gallery"
        /\ Len(media.files) = Len(Items) /\ Len(calls) = Len(Items)
        /\ \A k \in 1..Len(Items) :
              /\ media.files[k] = <<"0", Digit(k), DeclaredExt(k)>>
              /\ fs[media.files[k]] = "whole"
              /\ calls[k] \in UrlsOf(k)

\* A gallery of three items, the second of another media type than the
\* first and the third.
C19_Witness ==
    /\ dpc = "returned" /\ EveryItemResolves /\ Len(Items) = 3
    /\ media.files = <<(<<"0", "1", ".png">>), (<<"0", "2", ".gif">>), (<<"0", "3", ".png">>)>>
    /\ IdOf(1) = "a" /\ IdOf(2) = "b" /\ IdOf(3) = "a"

----------------------------------------------------------------------------
(* Properties of archive_one *)

\* The keys of a post that hold or announce media.
MediaFields ==
    {"is_gallery", "gallery_data", "media_metadata", "secure_media", "media",
     "crosspost_parent_list", "post_hint", "url_overridden_by_dest"}

\* A text post: is_self is true, no media field is there, and the url, when
\* there is one, is the post's own page.
PlainSelfPost(p) ==
    /\ p.t = "dict" /\ Flag(p, "is_self")
    /\ \A k \in MediaFields : ~Has(p, k)
    /\ Has(p, "url") => p.m.url.t = "url" /\ p.m.url.host = "www.reddit.com"

SelfMedia == [kind |-> "self", files |-> <<>>]

\* C20: once archive_one, asked to download media, has built the archive of
\* a text post without media fields, the only request ever begun is the one
\* for the post, no program is run and no file is written; and the archive
\* it returns has media = {kind: self, files: []}.
C20_SelfPostOnlyPostFetch ==
    (archive.made /\ download_media /\ PlainSelfPost(post)) =>
        /\ calls = <<"post">>
        /\ \A f \in DOMAIN fs : fs[f] = "absent"
        /\ dpc = "archived"
        /\ archive.media = SelfMedia

\* archive_one returned the archive of a text post that has a url.
C20_Witness ==
    /\ dpc = "archived" /\ download_media /\ PlainSelfPost(post) /\ Has(post, "url")
    /\ archive.media = SelfMedia /\ archive.media_kind = "self"
    /\ calls = <<"post">>

\* C21: in the archive that archive_one returns, external_link is not null
\* exactly when media_kind is external.
C21_ExternalLinkIffExternal ==
    dpc = "archived" =>
        (archive.external_link # Null <=> archive.media_kind = "external")

\* What archive_one has returned is complete: built from the fetched post,
\* media_kind set, and with media downloads asked for, the media result of
\* that kind.
CompleteRecord ==
    /\ archive.made /\ post.t = "dict"
    /\ archive.reddit_id = Get(post, "id")
    /\ archive.media_kind \in Kinds
    /\ download_media =>
        archive.media # Null /\ archive.media.kind = archive.media_kind

\* C22: archive_one never yields a partially populated record.  Every record
\* it returns is complete; a request_with_backoff call that raised, for the
\* post or inside an acquirer, ends archive_one with that exception at once;
\* once archive_one has raised it returns nothing any more, and main's
\* process_one writes a JSON file only for a record archive_one returned.
C22_NoPartialRecord ==
    /\ [](impl = "script" /\ dpc = "archived" => CompleteRecord)
    /\ [][impl = "script" =>
            /\ (fpc = "raised" /\ dpc # "raised") => dpc' = "raised"
            /\ dpc = "raised" => dpc' \in {"archive_one", "idle"}
            /\ (Len(batch'.log) > Len(batch.log)
                    /\ batch'.log[Len(batch'.log)].status = "saved")
                => dpc = "archived"]_vars

\* The second link's archive was built, then the request for its media
\* failed and archive_one raised; the first link's JSON file was written.
C22_Witness ==
    /\ impl = "script" /\ dpc = "raised" /\ archive.made
    /\ fpc = "raised" /\ fetchFor # "post"
    /\ Len(batch.log) = 1 /\ batch.log[1].status = "saved"

----------------------------------------------------------------------------
(* Properties of fetch_post_and_comments *)

\* data[0]["data"]["children"] can be read from the body b.
HasPostListing(b) ==
    /\ b.t = "list" /\ Len(b.items) >= 1
    /\ b.items[1].t = "dict" /\ Has(b.items[1], "data")
    /\ b.items[1].m.data.t = "dict" /\ Has(b.items[1].m.data, "children")

PostListing(b) == b.items[1].m.data.m.children

\* The body is no sequence, has fewer than two elements, or its element 0
\* holds an empty post listing.
ShapeViolation(b) ==
    \/ b.t # "list"
    \/ Len(b.items) < 2
    \/ HasPostListing(b) /\ PostListing(b) = EmptyList

\* C23: once the body of the post response is there, fetch_post_and_comments
\* of either file has raised (RuntimeError, or the decoder's error for a body
\* that is not JSON) and returned no post if the body is no sequence, has
\* fewer than two elements or holds an empty post listing; and if it
\* returned, the body is a sequence of at least two elements whose element 0
\* holds a non-empty list of children, the post is the data of the first
\* child and the comments listing is element 1 of the body.
C23_ShapeChecked ==
    body # Absent =>
        /\ ShapeViolation(body) =>
            /\ post = Null /\ listing = Null
            /\ dpc = (IF impl = "script" THEN "raised" ELSE "failed")
            /\ derr = (IF body.t = "notjson" THEN "JSONDecodeError" ELSE "RuntimeError")
        /\ (post # Null \/ listing # Null) =>
            /\ body.t = "list" /\ Len(body.items) >= 2
            /\ HasPostListing(body)
            /\ PostListing(body).t = "list" /\ Len(PostListing(body).items) >= 1
            /\ PostListing(body).items[1].t = "dict"
            /\ post = PostListing(body).items[1].m.data
            /\ listing = body.items[2]

\* process_one of jsonDownloader.py succeeded on a body whose element 0 wraps
\* two posts: the post is the first of them.
C23_Witness ==
    /\ impl = "json" /\ dpc = "success"
    /\ HasPostListing(body) /\ Len(PostListing(body).items) = 2
    /\ post = PostListing(body).items[1].m.data
    /\ post # PostListing(body).items[2].m.data
    /\ listing = body.items[2]

----------------------------------------------------------------------------
(* Properties of the batch drivers *)

\* How many entries of the log have status s.
RECURSIVE CountStatus(_, _)
CountStatus(log, s) ==
    IF log = <<>> THEN 0
    ELSE CountStatus(Tail(log), s) + (IF Head(log).status = s THEN 1 ELSE 0)

\* What the driver has done so far is what the claim asks for: the links
\* processed are 1, 2, ... in this order, each once; a driver at its end has
\* processed them all; and the counters of process_all hold, status by
\* status, the number of links that ended with it.
ProcessedInOrder ==
    /\ \A k \in 1..Len(batch.log) : batch.log[k].link = k
    /\ Len(batch.log) <= batch.total
    /\ batch.done => Len(batch.log) = batch.total
    /\ impl = "json" =>
        \A s \in {"success", "skipped", "failed"} :
            batch.results[s] = CountStatus(batch.log, s)

\* C24: a batch driver processes every link once, in list order, whatever
\* fails on the way, and reaches the end of the list.
C24_EveryLinkToTheEnd ==
    []ProcessedInOrder /\ <>batch.done

\* What holds of both drivers: no link is skipped, repeated or counted twice.
DriversKeepOrder == []ProcessedInOrder

\* What holds of script.py's driver: it reaches the end of the list.
ScriptDriverEnds == (impl = "script") => <>batch.done

----------------------------------------------------------------------------
(* Properties of the media results *)

\* Every path of media.files names a file of the destination directory.
FilesExist ==
    \A i \in 1..Len(media.files) : fs[media.files[i]] # "absent"

\* C29: when download_image, download_gallery or download_video returns,
\* every path listed in the files of its result names a file that exists in
\* the destination directory; after a successful mux or a video-only rename
\* the deleted or renamed intermediates are not listed.
C29_ListedFilesExist ==
    dpc = "returned" => FilesExist

\* What holds of download_image and download_gallery, and of a download_video
\* that neither removed an intermediate file nor renamed the video file (the
\* rename is what it does with a video URL and no audio URL).
ListedFilesExistUnlessMoved ==
    (/\ dpc = "returned"
     /\ "remove" \notin Range(calls)
     /\ ~(pick.v_url # None /\ pick.a_url = None)) => FilesExist

\* C30: pick_best_from_mpd returns a video URL exactly when the manifest has
\* a video representation with a BaseURL, and an audio URL exactly when it
\* has such an audio representation, whatever the declared bandwidths are.
C30_UrlWheneverBaseURL ==
    dpc = "picked" =>
        /\ pick.v_url # None <=> WithBaseURL(VideoMimes) # <<>>
        /\ pick.a_url # None <=> WithBaseURL(AudioMimes) # <<>>

\* What holds: a URL is returned for a category exactly when one of its
\* representations with a BaseURL declares a positive bandwidth.
UrlWheneverPositiveBandwidth ==
    dpc = "picked" =>
        /\ pick.v_url # None <=>
              \E i \in 1..Len(WithBaseURL(VideoMimes)) : WithBaseURL(VideoMimes)[i].bandwidth > 0
        /\ pick.a_url # None <=>
              \E i \in 1..Len(WithBaseURL(AudioMimes)) : WithBaseURL(AudioMimes)[i].bandwidth > 0

============================================================================
